---------------------------- MODULE Spec2Model ----------------------------
(***************************************************************************)
(* Staging-to-canonical migration pipeline of the FAVISA loader            *)
(* (src/python/main.py, src/python/db_connection.py).                      *)
(*                                                                         *)
(* Text values are sequences of one-character strings, so that strip(),    *)
(* upper() and v[0] are computed the way Python computes them.  None is    *)
(* the one-element sequence <<"<None>">>, which no text can equal.         *)
(***************************************************************************)
EXTENDS Integers, Sequences, FiniteSets, TLC

(***************************************************************************)
(* Bounds of the model.                                                    *)
(***************************************************************************)
\* longest text enumerated exhaustively as a normalizer input
MaxLen == 2

(***************************************************************************)
(* Python text primitives.                                                 *)
(***************************************************************************)
None == <<"<None>">>

LowerLetters ==
    <<"a","b","c","d","e","f","g","h","i","j","k","l","m",
      "n","o","p","q","r","s","t","u","v","w","x","y","z">>

UpperLetters ==
    <<"A","B","C","D","E","F","G","H","I","J","K","L","M",
      "N","O","P","Q","R","S","T","U","V","W","X","Y","Z">>

\* str.upper() on one character
UpperChar(c) ==
    IF \E i \in 1..26 : LowerLetters[i] = c
    THEN UpperLetters[CHOOSE i \in 1..26 : LowerLetters[i] = c]
    ELSE c

\* str.upper()
Upper(s) == [i \in 1..Len(s) |-> UpperChar(s[i])]

\* the characters str.strip() removes
IsSpace(c) == c \in {" ", "\t", "\n", "\r", "\f"}

RECURSIVE LStrip(_)
LStrip(s) == IF s # <<>> /\ IsSpace(Head(s)) THEN LStrip(Tail(s)) ELSE s

RECURSIVE RStrip(_)
RStrip(s) ==
    IF s # <<>> /\ IsSpace(s[Len(s)]) THEN RStrip(SubSeq(s, 1, Len(s) - 1)) ELSE s

\* str.strip()
Strip(s) == RStrip(LStrip(s))

\* str(valor): the text of a text is itself, str(None) is 'None'
Str(valor) == IF valor = None THEN <<"N","o","n","e">> ELSE valor

\* Python truthiness of a text or None: "not valor" is true for None and ''
Falsy(valor) == valor = None \/ valor = <<>>

\* the outcome of an expression that raises
Raised == <<"<raised>">>

\* v[0]: raises IndexError on the empty text
FirstChar(v) == IF Len(v) >= 1 THEN <<v[1]>> ELSE Raised

(***************************************************************************)
(* The codes of the closed catalogs, as texts.                             *)
(***************************************************************************)
ND       == <<"N","D">>
ACTIVO   == <<"A","C","T","I","V","O">>
INACTIVO == <<"I","N","A","C","T","I","V","O">>
ACTIVO2  == <<"2","A","C","T","I","V","O">>
HABIDO   == <<"H","A","B","I","D","O">>
HABIDO2  == <<"2","H","A","B","I","D","O">>
HOMBRE   == <<"H","O","M","B","R","E">>
MUJER    == <<"M","U","J","E","R">>
GUION    == <<"-">>
CE       == <<"C","E">>

EstadoValidos ==
    {ACTIVO, <<"1","0">>, <<"1","1">>, <<"3">>, <<"2">>, <<"1">>, <<"1","2">>, INACTIVO}

\* the accepted codes with one code too many
CondicionValidos_Con13 ==
    {HABIDO, <<"1">>, <<"2">>, <<"3">>, <<"4">>, <<"5">>, <<"6">>, <<"7">>,
     <<"8">>, <<"9">>, <<"1","0">>, <<"1","1">>, <<"1","2">>, <<"1","3">>}

CondicionValidos ==
    {HABIDO, <<"1">>, <<"2">>, <<"3">>, <<"4">>, <<"5">>, <<"6">>, <<"7">>,
     <<"8">>, <<"9">>, <<"1","0">>, <<"1","1">>, <<"1","2">>}

\* the exact matches without the two-letter code
TipoValidos_SinCE == {<<"A">>, <<"B">>, <<"C">>, <<"D">>, <<"E">>, GUION}

TipoValidos == {<<"A">>, <<"B">>, <<"C">>, <<"D">>, <<"E">>, CE, GUION}

TipoPrimerChar == {<<"A">>, <<"B">>, <<"C">>, <<"D">>, <<"E">>}

SexoValidos == {HOMBRE, MUJER}

TamanoValidos == {<<"C">>, <<"M">>, <<"G">>, <<"B">>}

(***************************************************************************)
(* The five field normalizers.                                             *)
(***************************************************************************)
\* without the branch for the corrupted prefix
limpiar_estado_SinPrefijo(valor) ==
    IF Falsy(valor) THEN ND
    ELSE LET v == Upper(Strip(Str(valor))) IN
         IF v \in EstadoValidos THEN v ELSE ND

limpiar_estado(valor) ==
    IF Falsy(valor) THEN ND
    ELSE LET v == Upper(Strip(Str(valor))) IN
         IF v = ACTIVO2 THEN ACTIVO
         ELSE IF v \in EstadoValidos THEN v
         ELSE ND

limpiar_condicion(valor) ==
    IF Falsy(valor) THEN ND
    ELSE LET v == Upper(Strip(Str(valor))) IN
         IF v = HABIDO2 THEN HABIDO
         ELSE IF v \in CondicionValidos THEN v
         ELSE ND

\* the prefix test without its length test: v[0] on any text
PrimerChar_SinGuarda(v) == FirstChar(v)

\* "len(v) >= 1 and v[0] in (...)": v[0] is evaluated only when the length
\* test passed; the value is the first character, or '' when there is none

PrimerChar(v) == IF Len(v) >= 1 THEN FirstChar(v) ELSE <<>>

limpiar_tipo_empresa(valor) ==
    IF Falsy(valor) THEN GUION
    ELSE LET v == Upper(Strip(Str(valor)))
             c == PrimerChar(v)
         IN  IF v \in TipoValidos THEN v
             ELSE IF c = Raised THEN Raised
             ELSE IF c \in TipoPrimerChar THEN c
             ELSE GUION

\* the comparison on the text as given, neither trimmed nor upper-cased
limpiar_sexo_SinStripUpper(valor) ==
    IF Falsy(valor) THEN ND
    ELSE LET v == Str(valor) IN
         IF v \in SexoValidos THEN v ELSE ND

limpiar_sexo(valor) ==
    IF Falsy(valor) THEN ND
    ELSE LET v == Upper(Strip(Str(valor))) IN
         IF v \in SexoValidos THEN v
         ELSE ND

limpiar_tamano(valor) ==
    IF Falsy(valor) THEN <<"C">>
    ELSE LET v == Upper(Strip(Str(valor))) IN
         IF v \in TamanoValidos THEN v
         ELSE <<"C">>

(***************************************************************************)
(* Python number parsing, as cargar_csv_a_staging uses it.                 *)
(***************************************************************************)
DigitChars == <<"0","1","2","3","4","5","6","7","8","9">>

IsDigit(c) == \E d \in 1..10 : DigitChars[d] = c

DigitVal(c) == (CHOOSE d \in 1..10 : DigitChars[d] = c) - 1

RECURSIVE DigitsVal(_)
DigitsVal(s) ==
    IF s = <<>> THEN 0 ELSE 10 * DigitsVal(SubSeq(s, 1, Len(s) - 1)) + DigitVal(s[Len(s)])

AllDigits(s) == s # <<>> /\ \A i \in 1..Len(s) : IsDigit(s[i])

\* int(text): surrounding whitespace and one sign are accepted, anything
\* else than decimal digits raises ValueError
ParseInt(text) ==
    LET t == Strip(text)
        neg == t # <<>> /\ Head(t) = "-"
        body == IF t # <<>> /\ Head(t) \in {"-", "+"} THEN Tail(t) ELSE t
    IN  IF AllDigits(body)
        THEN [ok |-> TRUE, val |-> IF neg THEN 0 - DigitsVal(body) ELSE DigitsVal(body)]
        ELSE [ok |-> FALSE, val |-> 0]

\* the decimal text of a natural number
RECURSIVE NatText(_)
NatText(n) ==
    IF n < 10 THEN <<DigitChars[n + 1]>>
    ELSE Append(NatText(n \div 10), DigitChars[(n % 10) + 1])

\* "text.strip() or None"
StripOrNone(text) == IF Strip(text) = <<>> THEN None ELSE Strip(text)

\* the NULL of the nullable integer column dds_edad
EdadNula == 0 - 1

(***************************************************************************)
(* State.                                                                  *)
(***************************************************************************)
VARIABLES
    csv,                  \* the source extract: the rows csv.DictReader yields
    TMP_DataOZ_Staging,   \* staging table, in insertion order
    ACTIVIDAD_ECONOMICA,  \* catalog tables, as the sets of their keys
    UBICACION_GEOGRAFICA,
    TIPO_EMPRESA,
    TAMANO_EMPRESA,
    ESTADO_TRIBUTARIO,
    CONDICION_DOMICILIO,
    CONTRIBUYENTE,        \* canonical store: the committed rows
    pc,                   \* position of main()
    run,                  \* number of the current invocation of main()
    st,                   \* locals of cargar_csv_a_staging
    pb,                   \* locals of poblar_catalogos
    mg,                   \* locals of migrar_staging_a_contribuyente
    hist,                 \* per invocation: what it found and what it left
    nValor,               \* normalizer harness: the input
    nRes,                 \* normalizer harness: the five results
    gc,                   \* locals of get_connection and the clock it reads
    RESULTADO_SPARK,      \* analysis-result table: the committed rows, in order
    gs,                   \* locals of guardar_resultado_spark and its transaction
    otra                  \* a second invocation of main(), while it is not running

dbvars == <<TMP_DataOZ_Staging, ACTIVIDAD_ECONOMICA, UBICACION_GEOGRAFICA,
            TIPO_EMPRESA, TAMANO_EMPRESA, ESTADO_TRIBUTARIO, CONDICION_DOMICILIO,
            CONTRIBUYENTE>>

catvars == <<ACTIVIDAD_ECONOMICA, UBICACION_GEOGRAFICA, TIPO_EMPRESA,
             TAMANO_EMPRESA, ESTADO_TRIBUTARIO, CONDICION_DOMICILIO>>

closedcats == <<TAMANO_EMPRESA, ESTADO_TRIBUTARIO, CONDICION_DOMICILIO>>

normvars == <<nValor, nRes>>

extravars == <<gc, RESULTADO_SPARK, gs, otra>>

\* nothing but one invocation of main() is under way
SinExtras ==
    /\ gc = <<>>
    /\ RESULTADO_SPARK = <<>>
    /\ gs = <<>>
    /\ otra = <<>>

vars == <<csv, TMP_DataOZ_Staging, ACTIVIDAD_ECONOMICA, UBICACION_GEOGRAFICA,
          TIPO_EMPRESA, TAMANO_EMPRESA, ESTADO_TRIBUTARIO, CONDICION_DOMICILIO,
          CONTRIBUYENTE, pc, run, st, pb, mg, hist, nValor, nRes,
          gc, RESULTADO_SPARK, gs, otra>>

(***************************************************************************)
(* Rows.  A raw row is what csv.DictReader yields: every field a text.  A  *)
(* staging row holds the coerced values cargar_csv_a_staging writes, a     *)
(* canonical row the tuple migrar_staging_a_contribuyente inserts.         *)
(***************************************************************************)
Fila(numruc, ciiu, tpoemp, tamano, ubigeo, estado, flag22, sexo, edad, deuda, cond) ==
    [ddp_numruc |-> numruc, ddp_ciiu |-> ciiu, ddp_tpoemp |-> tpoemp,
     ddp_tamano |-> tamano, ddp_ubigeo |-> ubigeo, ddp_estado |-> estado,
     ddp_flag22 |-> flag22, dds_sexo |-> sexo, dds_edad |-> edad,
     deuda |-> deuda, condicion |-> cond]

Contribuyente(ruc, ciiu, tipo, tamano, ubicacion, estado, condicion, sexo, edad, deuda, flag22) ==
    [ruc |-> ruc, id_ciiu |-> ciiu, id_tipo_empresa |-> tipo, id_tamano |-> tamano,
     id_ubicacion |-> ubicacion, id_estado |-> estado, id_condicion |-> condicion,
     sexo |-> sexo, edad |-> edad, deuda |-> deuda, flag22 |-> flag22]

CHIMBOTE == <<"C","H","I","M","B","O","T","E">>
SANTA    == <<"S","A","N","T","A">>
CIIU_75113 == <<"7","5","1","1","3">>
CIIU_5211  == <<"5","2","1","1">>
CIIU_9309  == <<"9","3","0","9">>

\* the fixed id of the record migrar_staging_a_contribuyente adds at its end
RUC_ESPECIAL == 611077

RegistroEspecial ==
    Contribuyente(RUC_ESPECIAL, CIIU_75113, <<"A">>, <<"C">>, CHIMBOTE, ACTIVO, HABIDO,
                  ND, 0, 0, HABIDO)

(***************************************************************************)
(* The relational store.  The schema script is not part of the sources;    *)
(* the constraints are those the specification states the store enforces:  *)
(* the business id is unique and every referenced code resolves.           *)
(***************************************************************************)
Rucs(tabla) == {r.ruc : r \in tabla}

\* the primary key of CONTRIBUYENTE
ClaveLibre(fila, tabla) == fila.ruc \notin Rucs(tabla)

\* a store that does not check its foreign keys
ReferenciasSinVerificar(fila, cat) == TRUE

\* the foreign keys of CONTRIBUYENTE
ReferenciasResueltas(fila, cat) ==
    /\ fila.id_ciiu \in cat.ciiu
    /\ fila.id_tipo_empresa \in cat.tipo
    /\ fila.id_tamano \in cat.tamano
    /\ fila.id_ubicacion \in cat.ubicacion
    /\ fila.id_estado \in cat.estado
    /\ fila.id_condicion \in cat.condicion

\* INSERT INTO CONTRIBUYENTE succeeds
Acepta(fila, tabla, cat) == ClaveLibre(fila, tabla) /\ ReferenciasResueltas(fila, cat)

\* cursor.executemany(sql_insert, batch): the rows are inserted one after the
\* other in one transaction; the first rejected row raises
RECURSIVE executemany(_, _, _)
executemany(batch, tabla, cat) ==
    IF batch = <<>> THEN [ok |-> TRUE, tabla |-> tabla]
    ELSE IF Acepta(Head(batch), tabla, cat)
         THEN executemany(Tail(batch), tabla \cup {Head(batch)}, cat)
         ELSE [ok |-> FALSE, tabla |-> tabla]

Catalogos ==
    [ciiu |-> ACTIVIDAD_ECONOMICA, ubicacion |-> UBICACION_GEOGRAFICA,
     tipo |-> TIPO_EMPRESA, tamano |-> TAMANO_EMPRESA,
     estado |-> ESTADO_TRIBUTARIO, condicion |-> CONDICION_DOMICILIO]

(***************************************************************************)
(* Inputs of a pipeline run: the source extract and the seeded catalogs.   *)
(***************************************************************************)
\* rows per batch (BATCH_SIZE = 500 in the source, scaled down)
BATCH_SIZE == 2
\* longest extract enumerated row by row
MaxRows == 3
\* invocations of main() in sequence
MaxRuns == 2
\* rows of the large extract, which brings the store to the row threshold
BulkSize == 98
\* main() passes min_rows=100 to check_table_has_data
MIN_ROWS == 100

\* a clean row; its company type 'b9' normalizes to 'B'
F_buena ==
    Fila(NatText(20001), CIIU_5211, <<"b","9">>, <<"M">>, CHIMBOTE, ACTIVO2, HABIDO2,
         <<"h","o","m","b","r","e">>, NatText(30), NatText(7), NatText(1))

\* the id of F_buena again with other fields; its tax status normalizes to 'ND'
F_repetida ==
    Fila(<<" ">> \o NatText(20001), CIIU_9309, <<"Z","Z">>, <<"G">>, SANTA, <<"X","X">>,
         NatText(5), MUJER, <<>>, <<"-">> \o NatText(5), <<>>)

\* a second clean row; its company type is 'B' as written
F_otra ==
    Fila(NatText(20002), CIIU_9309, <<"B">>, <<"x">>, SANTA, INACTIVO, NatText(12),
         <<>>, NatText(41), <<>>, NatText(0))

\* a row that carries the id of the special record
F_especial ==
    Fila(NatText(RUC_ESPECIAL), CIIU_5211, CE, <<"B">>, SANTA, NatText(1), HABIDO,
         MUJER, NatText(52), NatText(3), NatText(0))

\* an id below the sanity threshold of the migration
F_ruc_bajo ==
    Fila(NatText(9999), CIIU_5211, <<"A">>, <<"C">>, CHIMBOTE, ACTIVO, HABIDO,
         HOMBRE, NatText(30), NatText(0), NatText(0))

\* a blank id
F_sin_ruc ==
    Fila(<<" ">>, CIIU_5211, <<"A">>, <<"C">>, CHIMBOTE, ACTIVO, HABIDO,
         HOMBRE, NatText(30), NatText(0), NatText(0))

\* an id that is no number
F_ruc_malo ==
    Fila(<<"x","1">>, CIIU_5211, <<"A">>, <<"C">>, CHIMBOTE, ACTIVO, HABIDO,
         HOMBRE, NatText(30), NatText(0), NatText(0))

\* a row without activity code
F_sin_ciiu ==
    Fila(NatText(20003), <<>>, <<"D","x">>, <<"C">>, CHIMBOTE, ACTIVO, HABIDO,
         HOMBRE, NatText(30), NatText(2), NatText(0))

Muestras ==
    {F_buena, F_repetida, F_otra, F_especial, F_ruc_bajo, F_sin_ruc, F_ruc_malo,
     F_sin_ciiu}

SeqsUpTo(S, n) == UNION {[1..k -> S] : k \in 0..n}

\* the block of the large extract: BulkSize clean rows with distinct ids
FilaBulk(n) ==
    Fila(NatText(30000 + n), CIIU_5211, <<"A">>, <<"C">>, CHIMBOTE, ACTIVO, HABIDO,
         HOMBRE, NatText(30), NatText(0), NatText(0))

Bulk == [n \in 1..BulkSize |-> FilaBulk(n)]

\* a row with an id and an age that is not a number
F_edad_mala ==
    Fila(NatText(20004), CIIU_75113, <<"A">>, <<"C">>, CHIMBOTE, ACTIVO, HABIDO,
         HOMBRE, <<"x">>, NatText(3), NatText(0))

\* a row of an extract whose header lacks a column
SinColumna(row, col) == [c \in DOMAIN row \ {col} |-> row[c]]

\* the extract file is absent: open(CSV_PATH) raises
NoExiste == <<[errno |-> "ENOENT"]>>

\* extracts with an unparseable age, without the id column, and the absent file
ExtractosDirigidos ==
    {<<F_edad_mala>>, <<F_buena, F_edad_mala>>, <<F_edad_mala, F_sin_ruc, F_otra>>,
     <<SinColumna(F_buena, "ddp_numruc"), SinColumna(F_otra, "ddp_numruc")>>,
     NoExiste}

\* the short extracts, and the large extract alone or followed by one more row
Extractos ==
    SeqsUpTo(Muestras, MaxRows) \cup {Bulk} \cup {Append(Bulk, m) : m \in Muestras}
    \cup ExtractosDirigidos

\* the catalogs as the schema script leaves them
SemillaCompleta ==
    [ciiu |-> {CIIU_75113}, ubicacion |-> {CHIMBOTE},
     tipo |-> {<<"A">>, <<"B">>, <<"C">>, <<"D">>, <<"E">>, CE, GUION},
     tamano |-> {<<"C">>, <<"M">>, <<"G">>, <<"B">>},
     estado |-> EstadoValidos \cup {ND},
     condicion |-> CondicionValidos \cup {ND}]

\* a seeding without the undetermined code 'ND' and with two company types
SemillaSinND ==
    [SemillaCompleta EXCEPT !.estado = EstadoValidos, !.condicion = CondicionValidos,
                            !.tipo = {<<"A">>, GUION}]

\* a seeding whose open-ended catalogs are empty
SemillaAbierta ==
    [SemillaCompleta EXCEPT !.ciiu = {}, !.ubicacion = {}]

Semillas == {SemillaCompleta, SemillaSinND, SemillaAbierta}

(***************************************************************************)
(* Initial state: a bootstrapped database (empty staging area and          *)
(* canonical store, seeded catalogs) and main() about to start.            *)
(***************************************************************************)
StIni == [i |-> 0, batch |-> <<>>, filas_ok |-> 0, filas_error |-> 0, fallo |-> FALSE]

CatVacio ==
    [ciiu |-> {}, ubicacion |-> {}, tipo |-> {}, tamano |-> {}, estado |-> {},
     condicion |-> {}]

\* antes: the catalogs as poblar_catalogos found them
PbIni == [rowcount_ciiu |-> 0, rowcount_ubigeo |-> 0, nuevos_tipos |-> 0,
          antes |-> CatVacio]

\* what is remembered of the batch submitted last: its rows, and the store,
\* the tallies and the row position at the time it was submitted
LoteIni == [estado |-> "ninguno", filas |-> <<>>, antes |-> {}, insertados |-> 0,
            descartados |-> 0, k |-> 0]

MgIni == [rows |-> <<>>, k |-> 0, batch |-> <<>>, insertados |-> 0, descartados |-> 0,
          ruc_set |-> {}, j |-> 0, vuelve |-> "-", lote |-> LoteIni, retorno |-> <<>>,
          envios |-> <<>>]

\* n0: rows of the canonical store when main() started; cargo: the load
\* stages were entered; previa: the store the previous completed run left;
\* conexion: what test_connection() returned
HistIni(tabla, hay, previa) ==
    [n0 |-> Cardinality(tabla), cargo |-> FALSE, hayPrevia |-> hay, previa |-> previa,
     conexion |-> "sin probar"]

Init ==
    /\ csv \in Extractos
    /\ \E semilla \in Semillas :
          /\ ACTIVIDAD_ECONOMICA = semilla.ciiu
          /\ UBICACION_GEOGRAFICA = semilla.ubicacion
          /\ TIPO_EMPRESA = semilla.tipo
          /\ TAMANO_EMPRESA = semilla.tamano
          /\ ESTADO_TRIBUTARIO = semilla.estado
          /\ CONDICION_DOMICILIO = semilla.condicion
    /\ TMP_DataOZ_Staging = <<>>
    /\ CONTRIBUYENTE = {}
    /\ pc = "inicio"
    /\ run = 1
    /\ st = StIni
    /\ pb = PbIni
    /\ mg = MgIni
    /\ hist = HistIni({}, FALSE, {})
    /\ nValor = None
    /\ nRes = <<>>
    /\ SinExtras

(***************************************************************************)
(* main(): connection check, schema script, connection, re-entrancy guard. *)
(***************************************************************************)
\* test_connection(): False when the datastore stays unreachable; main()
\* then calls sys.exit(1)
\* main() goes on whatever the check returned
TrasTestConnection_SinSalir(disponible) == "sql"

\* "if not test_connection(): ... sys.exit(1)"
TrasTestConnection(disponible) == IF disponible THEN "sql" ELSE "exit1"

TestConnection ==
    /\ pc = "inicio"
    /\ \E disponible \in BOOLEAN :
          /\ pc' = TrasTestConnection(disponible)
          /\ hist' = [hist EXCEPT !.conexion = IF disponible THEN "ok" ELSE "falla"]
    /\ UNCHANGED <<csv, dbvars, run, st, pb, mg, normvars, extravars>>

\* execute_sql_file(SQL_PATH): the tables exist and the catalogs are seeded
\* already; its result only decides a warning
ExecuteSqlFile ==
    /\ pc = "sql"
    /\ pc' = "conectar"
    /\ UNCHANGED <<csv, dbvars, run, st, pb, mg, hist, normvars, extravars>>

\* conn = get_connection(): raises past its timeout, which ends main()
GetConnection ==
    /\ pc = "conectar"
    /\ \E disponible \in BOOLEAN :
          pc' = IF disponible THEN "verificar" ELSE "crashed"
    /\ UNCHANGED <<csv, dbvars, run, st, pb, mg, hist, normvars, extravars>>

\* check_table_has_data(table_name, min_rows): count >= min_rows, and False
\* when the connection or the count raises
check_table_has_data(tabla, min_rows, disponible) ==
    IF disponible THEN Cardinality(tabla) >= min_rows ELSE FALSE

\* the stages with the migration ahead of the catalog resolver
Sigue_MigrarAntes(etapa) ==
    CASE etapa = "verificar" -> "cargar"
      [] etapa = "cargar"    -> "migrar"
      [] etapa = "migrar"    -> "poblar_ciiu"
      [] etapa = "poblar"    -> "spark"
      [] etapa = "spark"     -> "resumen"
      [] etapa = "resumen"   -> "fin"

\* the stage main() runs after each stage
Sigue(etapa) ==
    CASE etapa = "verificar" -> "cargar"
      [] etapa = "cargar"    -> "poblar_ciiu"
      [] etapa = "poblar"    -> "migrar"
      [] etapa = "migrar"    -> "spark"
      [] etapa = "spark"     -> "resumen"
      [] etapa = "resumen"   -> "fin"

CheckTableHasData ==
    /\ pc = "verificar"
    /\ \E disponible \in BOOLEAN :
          pc' = IF check_table_has_data(CONTRIBUYENTE, MIN_ROWS, disponible)
                THEN "spark"
                ELSE Sigue("verificar")
    /\ UNCHANGED <<csv, dbvars, run, st, pb, mg, hist, normvars, extravars>>

(***************************************************************************)
(* cargar_csv_a_staging(conn)                                              *)
(***************************************************************************)
\* "int(text) if text.strip() else vacio"
IntO(text, vacio) ==
    IF Strip(text) # <<>> THEN ParseInt(text) ELSE [ok |-> TRUE, val |-> vacio]

\* the columns read by the four conversions, and those read for the tuple
ColumnasConvertidas == {"ddp_numruc", "dds_edad", "deuda", "condicion"}

ColumnasDeTexto ==
    {"ddp_ciiu", "ddp_tpoemp", "ddp_tamano", "ddp_ubigeo", "ddp_estado", "ddp_flag22",
     "dds_sexo"}

\* the conversions of one raw row: error when one of them raises
\* ValueError, sinRuc when the id is blank; amounts are whole numbers
\* row[...] raises KeyError when the header has no such column
Convertir(row) ==
    IF ColumnasConvertidas \ DOMAIN row # {}
    THEN [error |-> TRUE, sinRuc |-> FALSE, fila |-> <<>>]
    ELSE
    LET ruc       == IF Strip(row.ddp_numruc) # <<>> THEN ParseInt(row.ddp_numruc)
                     ELSE [ok |-> TRUE, val |-> 0]
        edad      == IntO(row.dds_edad, EdadNula)
        deuda     == IntO(row.deuda, 0)
        condicion == IntO(row.condicion, 0)
    IN  IF ~(ruc.ok /\ edad.ok /\ deuda.ok /\ condicion.ok)
        THEN [error |-> TRUE, sinRuc |-> FALSE, fila |-> <<>>]
        ELSE IF Strip(row.ddp_numruc) = <<>>
        THEN [error |-> FALSE, sinRuc |-> TRUE, fila |-> <<>>]
        ELSE IF ColumnasDeTexto \ DOMAIN row # {}
        THEN [error |-> TRUE, sinRuc |-> FALSE, fila |-> <<>>]
        ELSE
        [error  |-> FALSE,
         sinRuc |-> FALSE,
         fila   |-> Fila(ruc.val, StripOrNone(row.ddp_ciiu), StripOrNone(row.ddp_tpoemp),
                         StripOrNone(row.ddp_tamano), StripOrNone(row.ddp_ubigeo),
                         StripOrNone(row.ddp_estado), StripOrNone(row.ddp_flag22),
                         StripOrNone(row.dds_sexo), edad.val, deuda.val, condicion.val)]

\* the staging is left as it was found
Borrar_Nada(tabla) == tabla

\* DELETE FROM TMP_DataOZ_Staging
Borrar(tabla) == <<>>

\* DELETE FROM TMP_DataOZ_Staging; commit; open(CSV_PATH), which raises
\* FileNotFoundError out of the function and out of main()
CargarInicio ==
    /\ pc = "cargar"
    /\ TMP_DataOZ_Staging' = Borrar(TMP_DataOZ_Staging)
    /\ st' = StIni
    /\ hist' = [hist EXCEPT !.cargo = TRUE]
    /\ pc' = IF csv = NoExiste THEN "crashed" ELSE "cargar_filas"
    /\ UNCHANGED <<csv, catvars, CONTRIBUYENTE, run, pb, mg, normvars, extravars>>

\* the failed write is taken for one more bad row and the load goes on
TrasErrorDeEscritura_Sigue(sigue) == sigue

\* executemany raises pyodbc.Error, which "except (ValueError, KeyError)"
\* does not catch: the error leaves the function and main()
TrasErrorDeEscritura(sigue) == "crashed"

\* one iteration of "for i, row in enumerate(reader)"; a full batch is
\* written with executemany and committed, and a failed write raises out of
\* the function and out of main()
CargarFila ==
    /\ pc = "cargar_filas"
    /\ st.i < Len(csv)
    /\ LET c == Convertir(csv[st.i + 1])
           lote == Append(st.batch, c.fila)
       IN  IF c.error
           THEN /\ st' = [st EXCEPT !.i = @ + 1, !.filas_error = @ + 1]
                /\ UNCHANGED <<TMP_DataOZ_Staging, pc>>
           ELSE IF c.sinRuc
           THEN /\ st' = [st EXCEPT !.i = @ + 1]
                /\ UNCHANGED <<TMP_DataOZ_Staging, pc>>
           ELSE IF Len(lote) >= BATCH_SIZE
           THEN \E escrito \in BOOLEAN :
                   IF escrito
                   THEN /\ TMP_DataOZ_Staging' = TMP_DataOZ_Staging \o lote
                        /\ st' = [st EXCEPT !.i = @ + 1, !.batch = <<>>,
                                            !.filas_ok = @ + Len(lote)]
                        /\ UNCHANGED pc
                   ELSE /\ pc' = TrasErrorDeEscritura("cargar_filas")
                        /\ st' = [st EXCEPT !.i = @ + 1, !.batch = lote, !.fallo = TRUE]
                        /\ UNCHANGED TMP_DataOZ_Staging
           ELSE /\ st' = [st EXCEPT !.i = @ + 1, !.batch = lote]
                /\ UNCHANGED <<TMP_DataOZ_Staging, pc>>
    /\ UNCHANGED <<csv, catvars, CONTRIBUYENTE, run, pb, mg, hist, normvars, extravars>>

\* the last batch, and the return to main()
CargarFin ==
    /\ pc = "cargar_filas"
    /\ st.i = Len(csv)
    /\ IF st.batch # <<>>
       THEN \E escrito \in BOOLEAN :
               IF escrito
               THEN /\ TMP_DataOZ_Staging' = TMP_DataOZ_Staging \o st.batch
                    /\ st' = [st EXCEPT !.batch = <<>>, !.filas_ok = @ + Len(st.batch)]
                    /\ pc' = Sigue("cargar")
               ELSE /\ pc' = TrasErrorDeEscritura(Sigue("cargar"))
                    /\ st' = [st EXCEPT !.fallo = TRUE]
                    /\ UNCHANGED TMP_DataOZ_Staging
       ELSE /\ pc' = Sigue("cargar")
            /\ UNCHANGED <<TMP_DataOZ_Staging, st>>
    /\ UNCHANGED <<csv, catvars, CONTRIBUYENTE, run, pb, mg, hist, normvars, extravars>>

(***************************************************************************)
(* poblar_catalogos(conn)                                                  *)
(***************************************************************************)
\* SELECT DISTINCT col FROM TMP_DataOZ_Staging WHERE col IS NOT NULL, in
\* the order of first appearance
Distintos(valores, vistos) ==
    LET EsPrimera(n) ==
            /\ valores[n] # None
            /\ valores[n] \notin vistos
            /\ \A o \in 1..(n - 1) : valores[o] # valores[n]
        primeras == SelectSeq([n \in 1..Len(valores) |-> n], EsPrimera)
    IN  [k \in 1..Len(primeras) |-> valores[primeras[k]]]

Columna(tabla, col) == [n \in 1..Len(tabla) |-> tabla[n][col]]

Rango(f) == {f[x] : x \in DOMAIN f}

\* the SELECT DISTINCT without its NOT IN clause
NuevosCiiu_SinNotIn(staging, catalogo) ==
    {v \in Rango(Columna(staging, "ddp_ciiu")) : v # None}

\* the SELECT DISTINCT of the INSERT into ACTIVIDAD_ECONOMICA
NuevosCiiu(staging, catalogo) ==
    {v \in Rango(Columna(staging, "ddp_ciiu")) : v # None /\ v \notin catalogo}

\* the SELECT DISTINCT of the INSERT into UBICACION_GEOGRAFICA
NuevasUbicaciones(staging, catalogo) ==
    {v \in Rango(Columna(staging, "ddp_ubigeo")) : v # None /\ v \notin catalogo}

PoblarCiiu ==
    /\ pc = "poblar_ciiu"
    /\ LET nuevos == NuevosCiiu(TMP_DataOZ_Staging, ACTIVIDAD_ECONOMICA)
       IN  /\ ACTIVIDAD_ECONOMICA' = ACTIVIDAD_ECONOMICA \cup nuevos
           /\ pb' = [PbIni EXCEPT !.antes = Catalogos,
                                  !.rowcount_ciiu = Cardinality(nuevos)]
    /\ pc' = "poblar_ubigeo"
    /\ UNCHANGED <<csv, TMP_DataOZ_Staging, UBICACION_GEOGRAFICA, TIPO_EMPRESA,
                   closedcats, CONTRIBUYENTE, run, st, mg, hist, normvars, extravars>>

PoblarUbigeo ==
    /\ pc = "poblar_ubigeo"
    /\ LET nuevas == NuevasUbicaciones(TMP_DataOZ_Staging, UBICACION_GEOGRAFICA)
       IN  /\ UBICACION_GEOGRAFICA' = UBICACION_GEOGRAFICA \cup nuevas
           /\ pb' = [pb EXCEPT !.rowcount_ubigeo = Cardinality(nuevas)]
    /\ pc' = "poblar_tipos"
    /\ UNCHANGED <<csv, TMP_DataOZ_Staging, ACTIVIDAD_ECONOMICA, TIPO_EMPRESA,
                   closedcats, CONTRIBUYENTE, run, st, mg, hist, normvars, extravars>>

\* the resolver working on the raw value instead of the normalized code
TipoResuelto_Original(tipo) == tipo

\* the code the resolver looks up and inserts for a raw company type
TipoResuelto(tipo) == limpiar_tipo_empresa(tipo)

\* SELECT COUNT(*) FROM TIPO_EMPRESA WHERE id_tipo_empresa = ? is 0
TipoFalta(tipo_limpio, tabla) == tipo_limpio \notin tabla

\* "for tipo in tipos_csv": insertados lists the codes inserted, choque is
\* set when an INSERT meets a key that exists
RECURSIVE ResolverTipos(_, _, _)
ResolverTipos(tipos_csv, tabla, insertados) ==
    IF tipos_csv = <<>>
    THEN [tabla |-> tabla, insertados |-> insertados, choque |-> FALSE]
    ELSE LET tipo_limpio == TipoResuelto(Head(tipos_csv)) IN
         IF TipoFalta(tipo_limpio, tabla)
         THEN IF tipo_limpio \in tabla
              THEN [tabla |-> tabla, insertados |-> insertados, choque |-> TRUE]
              ELSE ResolverTipos(Tail(tipos_csv), tabla \cup {tipo_limpio},
                                 Append(insertados, tipo_limpio))
         ELSE ResolverTipos(Tail(tipos_csv), tabla, insertados)

\* the company-type loop and its commit; an INSERT that raises ends main()
\* with the transaction rolled back
PoblarTipos ==
    /\ pc = "poblar_tipos"
    /\ LET tipos_csv == Distintos(Columna(TMP_DataOZ_Staging, "ddp_tpoemp"), {})
           r == ResolverTipos(tipos_csv, TIPO_EMPRESA, <<>>)
       IN  IF r.choque
           THEN /\ pc' = "crashed"
                /\ UNCHANGED <<TIPO_EMPRESA, pb>>
           ELSE /\ TIPO_EMPRESA' = r.tabla
                /\ pb' = [pb EXCEPT !.nuevos_tipos = Len(r.insertados)]
                /\ pc' = Sigue("poblar")
    /\ UNCHANGED <<csv, TMP_DataOZ_Staging, ACTIVIDAD_ECONOMICA, UBICACION_GEOGRAFICA,
                   closedcats, CONTRIBUYENTE, run, st, mg, hist, normvars, extravars>>

(***************************************************************************)
(* migrar_staging_a_contribuyente(conn)                                    *)
(***************************************************************************)
\* the WHERE clause of the SELECT on the staging table
\* the WHERE clause without the threshold on the id
Filtro_SinUmbral(r) ==
    /\ r.ddp_ciiu # None
    /\ r.ddp_tpoemp # None
    /\ r.ddp_tamano # None
    /\ r.ddp_ubigeo # None
    /\ r.ddp_estado # None
    /\ r.ddp_flag22 # None

Filtro(r) ==
    /\ r.ddp_numruc >= 10000
    /\ r.ddp_ciiu # None
    /\ r.ddp_tpoemp # None
    /\ r.ddp_tamano # None
    /\ r.ddp_ubigeo # None
    /\ r.ddp_estado # None
    /\ r.ddp_flag22 # None

Filtrar(tabla) == SelectSeq(tabla, Filtro)

\* "str(x) if x else ''"
StrO(x) == IF Falsy(x) THEN <<>> ELSE Str(x)

\* the debt passed on as read
DeudaVal_SinTope(deuda) == IF deuda = <<>> THEN 0 ELSE deuda[1]

\* "deuda_val = float(deuda) if deuda is not None else 0.0" and the clamp;
\* the column value is <<>> for None and <<n>> for the number n
DeudaVal(deuda) ==
    IF deuda = <<>> THEN 0
    ELSE IF deuda[1] < 0 THEN 0 ELSE deuda[1]

\* the tuple appended to the batch for one staging row
Normalizar(row) ==
    Contribuyente(row.ddp_numruc, row.ddp_ciiu,
                  limpiar_tipo_empresa(StrO(row.ddp_tpoemp)),
                  limpiar_tamano(StrO(row.ddp_tamano)),
                  row.ddp_ubigeo,
                  limpiar_estado(StrO(row.ddp_estado)),
                  limpiar_condicion(StrO(row.ddp_flag22)),
                  limpiar_sexo(StrO(row.dds_sexo)),
                  row.dds_edad, DeudaVal(<<row.deuda>>), row.ddp_flag22)

\* no id is ever taken as seen
YaVisto_Nunca(ruc, ruc_set) == FALSE

\* "if ruc in ruc_set"
YaVisto(ruc, ruc_set) == ruc \in ruc_set

\* the rows of the previous run are kept
BorrarTodo_Nada(tabla) == tabla

\* "DELETE FROM CONTRIBUYENTE"
BorrarTodo(tabla) == {}

\* DELETE FROM CONTRIBUYENTE; commit; the SELECT on staging; fetchall
MigrarInicio ==
    /\ pc = "migrar"
    /\ CONTRIBUYENTE' = BorrarTodo(CONTRIBUYENTE)
    /\ mg' = [MgIni EXCEPT !.rows = Filtrar(TMP_DataOZ_Staging)]
    /\ pc' = "migrar_filas"
    /\ UNCHANGED <<csv, TMP_DataOZ_Staging, catvars, run, st, pb, hist, normvars, extravars>>

\* the ids of the rows of a batch, in order
RucsDe(batch) == [n \in 1..Len(batch) |-> batch[n].ruc]

\* a failed batch is rolled back and dropped whole, without retry
Enviar_SinReintento(lote, vuelve, m) ==
    LET r == executemany(lote, CONTRIBUYENTE, Catalogos)
        recuerdo == [estado |-> "procesado", filas |-> lote, antes |-> CONTRIBUYENTE,
                     insertados |-> m.insertados, descartados |-> m.descartados,
                     k |-> m.k]
    IN  /\ CONTRIBUYENTE' = IF r.ok THEN r.tabla ELSE CONTRIBUYENTE
        /\ mg' = [m EXCEPT !.insertados = IF r.ok THEN @ + Len(lote) ELSE @,
                           !.descartados = IF r.ok THEN @ ELSE @ + Len(lote),
                           !.batch = <<>>, !.lote = recuerdo,
                           !.envios = @ \o RucsDe(lote)]
        /\ pc' = vuelve

\* the batch is kept after it was processed
VaciarLote_No(batch) == batch

\* "batch = []"
VaciarLote(batch) == <<>>

\* the rows executemany wrote before the failing one stay in the store
rollback_Nada(antes, ahora) == ahora

\* conn.rollback(): the store as it was at the last commit
rollback(antes, ahora) == antes

\* the failure of the batch leaves the function: no handler
Enviar_SinCaptura(lote, vuelve, m) ==
    LET r == executemany(lote, CONTRIBUYENTE, Catalogos)
        recuerdo == [estado |-> "enviado", filas |-> lote, antes |-> CONTRIBUYENTE,
                     insertados |-> m.insertados, descartados |-> m.descartados,
                     k |-> m.k]
    IN  IF r.ok
        THEN /\ CONTRIBUYENTE' = r.tabla
             /\ mg' = [m EXCEPT !.insertados = @ + Len(lote), !.batch = VaciarLote(lote),
                                !.lote = [recuerdo EXCEPT !.estado = "procesado"],
                                !.envios = @ \o RucsDe(lote)]
             /\ pc' = vuelve
        ELSE /\ CONTRIBUYENTE' = CONTRIBUYENTE
             /\ mg' = [m EXCEPT !.batch = lote, !.lote = recuerdo,
                                !.envios = @ \o RucsDe(lote)]
             /\ pc' = "crashed"

\* the batch is handed to the store: on success it is committed and counted,
\* on failure it is rolled back and the row-by-row retry starts; envios
\* lists the ids handed to the store, batch by batch and row by row
Enviar(lote, vuelve, m) ==
    LET r == executemany(lote, CONTRIBUYENTE, Catalogos)
        recuerdo == [estado |-> "enviado", filas |-> lote, antes |-> CONTRIBUYENTE,
                     insertados |-> m.insertados, descartados |-> m.descartados,
                     k |-> m.k]
    IN  IF r.ok
        THEN /\ CONTRIBUYENTE' = r.tabla
             /\ mg' = [m EXCEPT !.insertados = @ + Len(lote), !.batch = VaciarLote(lote),
                                !.lote = [recuerdo EXCEPT !.estado = "procesado"],
                                !.envios = @ \o RucsDe(lote)]
             /\ pc' = vuelve
        ELSE /\ CONTRIBUYENTE' = rollback(CONTRIBUYENTE, r.tabla)
             /\ mg' = [m EXCEPT !.batch = lote, !.j = 0, !.vuelve = vuelve,
                                !.lote = recuerdo, !.envios = @ \o RucsDe(lote)]
             /\ pc' = "migrar_uno"

\* one iteration of "for row in rows"
MigrarFila ==
    /\ pc = "migrar_filas"
    /\ mg.k < Len(mg.rows)
    /\ LET row == mg.rows[mg.k + 1]
           fila == Normalizar(row)
           m == [mg EXCEPT !.k = @ + 1]
       IN  IF YaVisto(fila.ruc, mg.ruc_set)
           THEN /\ mg' = [m EXCEPT !.descartados = @ + 1]
                /\ UNCHANGED <<CONTRIBUYENTE, pc>>
           ELSE LET m2 == [m EXCEPT !.ruc_set = @ \cup {fila.ruc}]
                    lote == Append(mg.batch, fila)
                IN  IF Len(lote) >= BATCH_SIZE
                    THEN Enviar(lote, "migrar_filas", m2)
                    ELSE /\ mg' = [m2 EXCEPT !.batch = lote]
                         /\ UNCHANGED <<CONTRIBUYENTE, pc>>
    /\ UNCHANGED <<csv, TMP_DataOZ_Staging, catvars, run, st, pb, hist, normvars, extravars>>

\* one iteration of "for single_row in batch" after a failed batch; after
\* the last one the batch is emptied and the function goes on
MigrarUno ==
    /\ pc = "migrar_uno"
    /\ mg.j < Len(mg.batch)
    /\ LET single_row == mg.batch[mg.j + 1]
           ultimo == mg.j + 1 = Len(mg.batch)
           m == [mg EXCEPT !.j = @ + 1,
                           !.batch = IF ultimo THEN VaciarLote(@) ELSE @,
                           !.lote.estado = IF ultimo THEN "procesado" ELSE @,
                           !.envios = Append(@, single_row.ruc)]
       IN  /\ IF Acepta(single_row, CONTRIBUYENTE, Catalogos)
              THEN /\ CONTRIBUYENTE' = CONTRIBUYENTE \cup {single_row}
                   /\ mg' = [m EXCEPT !.insertados = @ + 1]
              ELSE /\ CONTRIBUYENTE' = CONTRIBUYENTE
                   /\ mg' = [m EXCEPT !.descartados = @ + 1]
           /\ pc' = IF ultimo THEN mg.vuelve ELSE pc
    /\ UNCHANGED <<csv, TMP_DataOZ_Staging, catvars, run, st, pb, hist, normvars, extravars>>

\* "if batch:" after the loop
MigrarUltimoLote ==
    /\ pc = "migrar_filas"
    /\ mg.k = Len(mg.rows)
    /\ IF mg.batch # <<>>
       THEN Enviar(mg.batch, "migrar_especial", mg)
       ELSE /\ pc' = "migrar_especial"
            /\ UNCHANGED <<CONTRIBUYENTE, mg>>
    /\ UNCHANGED <<csv, TMP_DataOZ_Staging, catvars, run, st, pb, hist, normvars, extravars>>

\* the existence test inverted: IF EXISTS
FaltaEspecial_Invertido(tabla) == RUC_ESPECIAL \in Rucs(tabla)

\* IF NOT EXISTS (SELECT 1 FROM CONTRIBUYENTE WHERE ruc = 611077)
FaltaEspecial(tabla) == RUC_ESPECIAL \notin Rucs(tabla)

\* the discarded count returned in the place of the inserted count
Retorno_Descartados(m) == <<m.descartados>>

\* "return insertados": the returned value, as the tuple of its components
Retorno(m) == <<m.insertados>>

\* the special record: inserted if absent, a failed insert is only logged;
\* then "return insertados"
MigrarEspecial ==
    /\ pc = "migrar_especial"
    /\ CONTRIBUYENTE' =
          IF FaltaEspecial(CONTRIBUYENTE) /\ Acepta(RegistroEspecial, CONTRIBUYENTE, Catalogos)
          THEN CONTRIBUYENTE \cup {RegistroEspecial}
          ELSE CONTRIBUYENTE
    /\ mg' = [mg EXCEPT !.retorno = Retorno(mg)]
    /\ pc' = Sigue("migrar")
    /\ UNCHANGED <<csv, TMP_DataOZ_Staging, catvars, run, st, pb, hist, normvars, extravars>>

(***************************************************************************)
(* The reporting stages and the next invocation.                           *)
(***************************************************************************)
\* ejecutar_spark(): reads the canonical store; its failure is caught
EjecutarSpark ==
    /\ pc = "spark"
    /\ pc' = Sigue("spark")
    /\ UNCHANGED <<csv, dbvars, run, st, pb, mg, hist, normvars, extravars>>

\* mostrar_resumen(conn): read-only queries; conn.close()
MostrarResumen ==
    /\ pc = "resumen"
    /\ pc' = Sigue("resumen")
    /\ UNCHANGED <<csv, dbvars, run, st, pb, mg, hist, normvars, extravars>>

Terminado == pc \in {"fin", "exit1", "crashed"}

\* after a completed run main() is started again on the same database and
\* the same extract
NuevaEjecucion ==
    /\ pc = "fin"
    /\ run < MaxRuns
    /\ run' = run + 1
    /\ pc' = "inicio"
    /\ st' = StIni
    /\ pb' = PbIni
    /\ mg' = MgIni
    /\ hist' = HistIni(CONTRIBUYENTE, TRUE, CONTRIBUYENTE)
    /\ UNCHANGED <<csv, dbvars, normvars, extravars>>

Next ==
    \/ TestConnection
    \/ ExecuteSqlFile
    \/ GetConnection
    \/ CheckTableHasData
    \/ CargarInicio
    \/ CargarFila
    \/ CargarFin
    \/ PoblarCiiu
    \/ PoblarUbigeo
    \/ PoblarTipos
    \/ MigrarInicio
    \/ MigrarFila
    \/ MigrarUno
    \/ MigrarUltimoLote
    \/ MigrarEspecial
    \/ EjecutarSpark
    \/ MostrarResumen
    \/ NuevaEjecucion

Spec == Init /\ [][Next]_vars

(***************************************************************************)
(* Vocabulary of the claims about a pipeline run.                          *)
(***************************************************************************)
\* migrar_staging_a_contribuyente has returned in this run
Migrado == hist.cargo /\ pc \in {"spark", "resumen", "fin"}

\* poblar_catalogos has just returned
Poblado == hist.cargo /\ pc = "migrar"

\* the positions of the filtered staging rows that carry an id
Posiciones(ruc) == {n \in 1..Len(mg.rows) : mg.rows[n].ddp_numruc = ruc}

RucsLeidos == {mg.rows[n].ddp_numruc : n \in 1..Len(mg.rows)}

RucsRepetidos == {ruc \in RucsLeidos : Cardinality(Posiciones(ruc)) >= 2}

\* the first row in read order with an id
Primera(ruc) ==
    mg.rows[CHOOSE n \in Posiciones(ruc) : \A o \in Posiciones(ruc) : n <= o]

\* rows that come after a row with the same id
NumRepetidas == Len(mg.rows) - Cardinality(RucsLeidos)

\* ids whose first row the store rejects
PrimerasRechazadas ==
    {ruc \in RucsLeidos : ~ReferenciasResueltas(Normalizar(Primera(ruc)), Catalogos)}

ConRuc(ruc) == {r \in CONTRIBUYENTE : r.ruc = ruc}

\* every code a record references is in the given catalogs
CodigosPresentes(r, ciiu, tipo, tamano, ubicacion, estado, condicion) ==
    /\ r.id_ciiu \in ciiu
    /\ r.id_tipo_empresa \in tipo
    /\ r.id_tamano \in tamano
    /\ r.id_ubicacion \in ubicacion
    /\ r.id_estado \in estado
    /\ r.id_condicion \in condicion

\* the distinct non-null values of a staging column
ValoresStaging(col) == {TMP_DataOZ_Staging[n][col] : n \in 1..Len(TMP_DataOZ_Staging)} \ {None}

(***************************************************************************)
(* C1: two runs of main() in sequence on the same extract and the same     *)
(* seeded catalogs leave the same canonical store: when a run completes    *)
(* after a completed run, the store equals the store the previous run      *)
(* left, whether the run skipped the load stages or rebuilt the store.     *)
(***************************************************************************)
C1_Idempotent ==
    (pc = "fin" /\ hist.hayPrevia) => CONTRIBUYENTE = hist.previa

\* a second run that rebuilt a store of several records, one id repeated
C1_Witness ==
    /\ pc = "fin"
    /\ hist.hayPrevia
    /\ hist.cargo
    /\ mg.descartados >= 1
    /\ Cardinality(CONTRIBUYENTE) >= 3
    /\ CONTRIBUYENTE = hist.previa

\* a second run that skipped the load stages on a store of MIN_ROWS rows
C1_WitnessSkip ==
    /\ pc = "fin"
    /\ hist.hayPrevia
    /\ ~hist.cargo
    /\ Cardinality(CONTRIBUYENTE) >= MIN_ROWS

(***************************************************************************)
(* C2 as stated: for every id that two or more filtered staging rows       *)
(* carry, the migration leaves exactly one record with that id, which      *)
(* carries the normalized values of the first such row, and every later    *)
(* row with that id adds one to the discarded count.                       *)
(***************************************************************************)
C2_Original ==
    Migrado =>
       /\ \A ruc \in RucsRepetidos : ConRuc(ruc) = {Normalizar(Primera(ruc))}
       /\ mg.descartados >= NumRepetidas

(***************************************************************************)
(* C2 amended: for every id that two or more filtered staging rows carry,  *)
(* the migration leaves at most one record with that id: the normalized    *)
(* first row when the store accepts it, and no row of the staging when the *)
(* store rejects it (the id is then left to the special record, if it is   *)
(* the special id); every later row with that id adds exactly one to the   *)
(* discarded count, which is the later rows plus the rejected first rows.  *)
(***************************************************************************)
C2_DedupFirstSeen ==
    Migrado =>
       /\ \A ruc \in RucsRepetidos :
             ConRuc(ruc) =
                IF ReferenciasResueltas(Normalizar(Primera(ruc)), Catalogos)
                THEN {Normalizar(Primera(ruc))}
                ELSE IF ruc = RUC_ESPECIAL /\ ReferenciasResueltas(RegistroEspecial, Catalogos)
                THEN {RegistroEspecial}
                ELSE {}
       /\ mg.descartados = NumRepetidas + Cardinality(PrimerasRechazadas)

\* two rows with one id and different fields: the first is stored, the
\* second is the one discarded row
C2_Witness ==
    /\ Migrado
    /\ RucsRepetidos = {20001}
    /\ Normalizar(Primera(20001)) \in CONTRIBUYENTE
    /\ \E n \in Posiciones(20001) : Normalizar(mg.rows[n]) # Normalizar(Primera(20001))
    /\ mg.descartados = 1

(***************************************************************************)
(* C3: when a batch (a full batch of BATCH_SIZE rows or the last partial   *)
(* batch) holds exactly one row the store rejects and N rows it accepts,   *)
(* then once the batch is processed the N rows are in the canonical store, *)
(* the inserted count has grown by N and the discarded count by 1.         *)
(***************************************************************************)
LoteMalas == {n \in 1..Len(mg.lote.filas) : ~Acepta(mg.lote.filas[n], mg.lote.antes, Catalogos)}

LoteProcesado == mg.lote.estado = "procesado" /\ mg.k = mg.lote.k /\ pc \in {"migrar_filas", "migrar_especial"}

C3_BatchFallback ==
    (LoteProcesado /\ Cardinality(LoteMalas) = 1) =>
       /\ \A n \in 1..Len(mg.lote.filas) : n \notin LoteMalas => mg.lote.filas[n] \in CONTRIBUYENTE
       /\ \A n \in LoteMalas : mg.lote.filas[n] \notin CONTRIBUYENTE
       /\ mg.insertados = mg.lote.insertados + (Len(mg.lote.filas) - 1)
       /\ mg.descartados = mg.lote.descartados + 1

\* a full batch of one good and one bad row has been retried row by row
C3_Witness ==
    /\ LoteProcesado
    /\ Len(mg.lote.filas) = BATCH_SIZE
    /\ Cardinality(LoteMalas) = 1
    /\ mg.insertados = mg.lote.insertados + (BATCH_SIZE - 1)

(***************************************************************************)
(* C4: in every state no two records of the canonical store share an id,   *)
(* the special record included; the rows waiting in the batch carry ids    *)
(* that differ from one another and from every stored id, so that the      *)
(* store is never asked to take an id twice.                               *)
(***************************************************************************)
C4_UniqueRuc ==
    /\ \A a, b \in CONTRIBUYENTE : a.ruc = b.ruc => a = b
    /\ pc = "migrar_filas" =>
          /\ \A n, o \in 1..Len(mg.batch) : mg.batch[n].ruc = mg.batch[o].ruc => n = o
          /\ \A n \in 1..Len(mg.batch) : mg.batch[n].ruc \notin Rucs(CONTRIBUYENTE)

\* the staging held the special id twice; it is stored once, from staging
C4_Witness ==
    /\ Migrado
    /\ Cardinality(Posiciones(RUC_ESPECIAL)) >= 2
    /\ Cardinality(ConRuc(RUC_ESPECIAL)) = 1
    /\ RegistroEspecial \notin CONTRIBUYENTE
    /\ Cardinality(CONTRIBUYENTE) >= 2

(***************************************************************************)
(* C5: every code a canonical record references exists in its catalog in   *)
(* every state, and a record is written only when its codes are in the     *)
(* catalogs already, in the state before the write; a row with a missing   *)
(* code is never written.                                                  *)
(***************************************************************************)
C5_ReferentialIntegrity ==
    [][ /\ \A r \in CONTRIBUYENTE' :
              CodigosPresentes(r, ACTIVIDAD_ECONOMICA', TIPO_EMPRESA', TAMANO_EMPRESA',
                               UBICACION_GEOGRAFICA', ESTADO_TRIBUTARIO',
                               CONDICION_DOMICILIO')
        /\ \A r \in CONTRIBUYENTE' \ CONTRIBUYENTE :
              CodigosPresentes(r, ACTIVIDAD_ECONOMICA, TIPO_EMPRESA, TAMANO_EMPRESA,
                               UBICACION_GEOGRAFICA, ESTADO_TRIBUTARIO,
                               CONDICION_DOMICILIO) ]_vars

\* a row whose tax status is not in the catalog was retried alone and is
\* not in the store, while its batch-mate is
C5_Witness ==
    /\ Migrado
    /\ mg.descartados > NumRepetidas
    /\ mg.insertados >= 1
    /\ \E n \in 1..Len(mg.rows) :
          /\ Normalizar(mg.rows[n]).id_estado \notin ESTADO_TRIBUTARIO
          /\ ConRuc(mg.rows[n].ddp_numruc) = {}

(***************************************************************************)
(* C6: when poblar_catalogos returns, the normalized code of every         *)
(* non-null raw company type of the staging is in TIPO_EMPRESA; the        *)
(* resolver has inserted exactly the normalized codes that were absent,    *)
(* one row each, also when several raw values share a normalized code.     *)
(***************************************************************************)
TiposNormalizados == {limpiar_tipo_empresa(t) : t \in ValoresStaging("ddp_tpoemp")}

C7_OpenCatalogsResolved ==
    Poblado =>
       /\ ValoresStaging("ddp_ciiu") \subseteq ACTIVIDAD_ECONOMICA
       /\ ValoresStaging("ddp_ubigeo") \subseteq UBICACION_GEOGRAFICA
       /\ ACTIVIDAD_ECONOMICA = pb.antes.ciiu \cup ValoresStaging("ddp_ciiu")
       /\ UBICACION_GEOGRAFICA = pb.antes.ubicacion \cup ValoresStaging("ddp_ubigeo")
       /\ pb.rowcount_ciiu = Cardinality(ValoresStaging("ddp_ciiu") \ pb.antes.ciiu)
       /\ pb.rowcount_ubigeo = Cardinality(ValoresStaging("ddp_ubigeo") \ pb.antes.ubicacion)

\* two activity codes were missing and inserted; of the two locations one
\* was present and one was inserted
C7_Witness ==
    /\ Poblado
    /\ pb.rowcount_ciiu = 2
    /\ pb.rowcount_ubigeo = 1
    /\ Cardinality(ValoresStaging("ddp_ubigeo")) = 2
    /\ CHIMBOTE \in pb.antes.ubicacion

(***************************************************************************)
(* C8 as stated: when the canonical store holds at least MIN_ROWS rows at  *)
(* the start of main(), the load stages are skipped; they are entered only *)
(* when the store holds fewer rows.                                        *)
(***************************************************************************)
C8_Original == hist.cargo => hist.n0 < MIN_ROWS

(***************************************************************************)
(* C9 as stated: after the migration returns, the special record with its  *)
(* fixed values is in the canonical store, whatever the staging and the    *)
(* catalogs hold.                                                          *)
(***************************************************************************)
C9_Original == Migrado => RegistroEspecial \in CONTRIBUYENTE

(***************************************************************************)
(* C9 amended: after the migration returns, the canonical store holds the  *)
(* special record with its fixed values exactly when no staging row with   *)
(* the special id was inserted and the catalogs hold every code the        *)
(* special record references; when a staging row with the special id was   *)
(* inserted, the one record with that id carries that row's values; when   *)
(* neither is the case the store holds no record with that id.             *)
(***************************************************************************)
EspecialDeStaging ==
    /\ RUC_ESPECIAL \in RucsLeidos
    /\ ReferenciasResueltas(Normalizar(Primera(RUC_ESPECIAL)), Catalogos)

C9_SpecialRecord ==
    Migrado =>
       ConRuc(RUC_ESPECIAL) =
          IF EspecialDeStaging THEN {Normalizar(Primera(RUC_ESPECIAL))}
          ELSE IF ReferenciasResueltas(RegistroEspecial, Catalogos) THEN {RegistroEspecial}
          ELSE {}

\* the special record was added to a store that the staging had filled
C9_Witness ==
    /\ Migrado
    /\ ~EspecialDeStaging
    /\ RegistroEspecial \in CONTRIBUYENTE
    /\ mg.insertados >= 2
    /\ Cardinality(CONTRIBUYENTE) = mg.insertados + 1

(***************************************************************************)
(* Vocabulary of the claims about the staging load.                        *)
(***************************************************************************)
\* cargar_csv_a_staging has just returned to main()
CargaCompleta == hist.cargo /\ pc = "poblar_ciiu"

TieneId(row) == "ddp_numruc" \in DOMAIN row

IdEnBlanco(row) == TieneId(row) /\ Strip(row.ddp_numruc) = <<>>

\* the business id parses as an integer
IdParsea(row) == TieneId(row) /\ ~IdEnBlanco(row) /\ ParseInt(row.ddp_numruc).ok

\* a numeric field is blank or parses
NumeroOVacio(row, col) ==
    col \in DOMAIN row /\ (Strip(row[col]) = <<>> \/ ParseInt(row[col]).ok)

\* every column is there, the id parses and the other numbers are blank or parse
Aceptable(row) ==
    /\ ColumnasConvertidas \cup ColumnasDeTexto \subseteq DOMAIN row
    /\ IdParsea(row)
    /\ NumeroOVacio(row, "dds_edad")
    /\ NumeroOVacio(row, "deuda")
    /\ NumeroOVacio(row, "condicion")

Cuantas(rows, P(_)) == Cardinality({n \in 1..Len(rows) : P(rows[n])})

IdsStaging == [n \in 1..Len(TMP_DataOZ_Staging) |-> TMP_DataOZ_Staging[n].ddp_numruc]

IdsParseados(rows) ==
    LET conId == SelectSeq(rows, IdParsea)
    IN  [n \in 1..Len(conId) |-> ParseInt(conId[n].ddp_numruc).val]

Esperado(rows) ==
    LET aceptables == SelectSeq(rows, Aceptable)
    IN  [n \in 1..Len(aceptables) |-> Convertir(aceptables[n]).fila]

\* the WHERE clause of the migration, on one staging row
PasaFiltro(r) ==
    /\ r.ddp_numruc >= 10000
    /\ None \notin {r.ddp_ciiu, r.ddp_tpoemp, r.ddp_tamano, r.ddp_ubigeo, r.ddp_estado,
                    r.ddp_flag22}

\* the extract file is absent, or its rows have no business-id column
ExtractoInvalido ==
    \/ csv = NoExiste
    \/ csv # <<>> /\ \A n \in 1..Len(csv) : ~TieneId(csv[n])

(***************************************************************************)
(* C15 as stated: a raw row whose business id is blank produces no staging *)
(* record and is counted in the dropped tally of the staging load: the     *)
(* accepted count is the number of staging records, and accepted plus      *)
(* dropped accounts for every raw row.                                     *)
(***************************************************************************)
C15_Original ==
    CargaCompleta =>
       /\ st.filas_ok = Len(TMP_DataOZ_Staging)
       /\ Len(TMP_DataOZ_Staging) <= Len(csv) - Cuantas(csv, IdEnBlanco)
       /\ st.filas_error >= Cuantas(csv, IdEnBlanco)
       /\ st.filas_ok + st.filas_error = Len(csv)

(***************************************************************************)
(* C16 as stated: after a successful staging load the staging area holds   *)
(* exactly one record, in source order, for every raw row whose business   *)
(* id parses as an integer, none for any other row, and nothing of a       *)
(* previous run.                                                           *)
(***************************************************************************)
C16_Original == CargaCompleta => IdsStaging = IdsParseados(csv)

(***************************************************************************)
(* C16 amended: after a successful staging load the staging area holds     *)
(* exactly one record, in source order, for every raw row whose business   *)
(* id is not blank and parses as an integer and whose age, debt and        *)
(* condition fields are blank or parse as numbers, none for any other row, *)
(* and nothing of a previous run.                                          *)
(***************************************************************************)
C16_StagingFullReplace == CargaCompleta => TMP_DataOZ_Staging = Esperado(csv)

\* the second run has replaced the staging of the first; the row with the
\* unparseable age and the row with the blank id have no record
C16_Witness ==
    /\ CargaCompleta
    /\ run = 2
    /\ csv = <<F_edad_mala, F_sin_ruc, F_otra>>
    /\ Len(TMP_DataOZ_Staging) = 1
    /\ IdsStaging = <<20002>>

(***************************************************************************)
(* C17: the migration processes a staging row, inserting it or counting    *)
(* it as discarded, only if its id is at least 10000 and its activity,     *)
(* company type, size, location, tax status and domicile fields are not    *)
(* null: the two tallies together count exactly the rows that pass, and    *)
(* every record written from the staging comes from a row that passes.     *)
(***************************************************************************)
C17_FilterBeforeMigration ==
    Migrado =>
       /\ mg.insertados + mg.descartados = Cuantas(TMP_DataOZ_Staging, PasaFiltro)
       /\ \A r \in CONTRIBUYENTE :
             \/ r = RegistroEspecial
             \/ \E n \in 1..Len(TMP_DataOZ_Staging) :
                   /\ PasaFiltro(TMP_DataOZ_Staging[n])
                   /\ TMP_DataOZ_Staging[n].ddp_numruc = r.ruc
       /\ \A n \in 1..Len(TMP_DataOZ_Staging) :
             TMP_DataOZ_Staging[n].ddp_numruc < 10000 =>
                ConRuc(TMP_DataOZ_Staging[n].ddp_numruc) = {}

\* a row with a low id and a row without activity code were left out, and
\* the one row that passes was inserted
C17_Witness ==
    /\ Migrado
    /\ Len(TMP_DataOZ_Staging) = 3
    /\ \E n \in 1..3 : TMP_DataOZ_Staging[n].ddp_numruc < 10000
    /\ \E n \in 1..3 : TMP_DataOZ_Staging[n].ddp_ciiu = None
    /\ mg.insertados = 1
    /\ mg.descartados = 0

(***************************************************************************)
(* C18: every record of the canonical store has a debt of at least 0: a    *)
(* negative staging debt is stored as 0, a null debt as 0, and a debt that *)
(* is not negative is stored unchanged.                                    *)
(***************************************************************************)
C18_DebtNonNegative ==
    /\ \A r \in CONTRIBUYENTE : r.deuda >= 0
    /\ DeudaVal(<<>>) = 0
    /\ Migrado =>
          \A ruc \in RucsLeidos : \A r \in ConRuc(ruc) :
             (ruc # RUC_ESPECIAL \/ EspecialDeStaging) =>
                r.deuda = IF Primera(ruc).deuda < 0 THEN 0 ELSE Primera(ruc).deuda

\* one record was stored with its negative debt raised to 0 and another
\* with its positive debt as read
C18_Witness ==
    /\ Migrado
    /\ \E ruc \in RucsLeidos :
          /\ Primera(ruc).deuda < 0
          /\ \E r \in ConRuc(ruc) : r.deuda = 0
    /\ \E ruc \in RucsLeidos :
          /\ Primera(ruc).deuda > 0
          /\ \E r \in ConRuc(ruc) : r.deuda = Primera(ruc).deuda

C20_Original ==
    (hist.cargo /\ ExtractoInvalido) => pc \in {"cargar_filas", "crashed"}

(***************************************************************************)
(* C21: when test_connection() fails, main() exits with a non-zero status  *)
(* and no later stage runs: once the check has returned False the run sits *)
(* at the exit with status 1 and takes no further step.                    *)
(***************************************************************************)
C21_ExitOnFailedConnection ==
    /\ [](hist.conexion = "falla" => pc = "exit1")
    /\ [][hist.conexion # "falla"]_vars

\* a second run whose check failed, the store of the first run untouched
C21_Witness ==
    /\ hist.conexion = "falla"
    /\ pc = "exit1"
    /\ hist.hayPrevia
    /\ CONTRIBUYENTE # {}
    /\ CONTRIBUYENTE = hist.previa

(***************************************************************************)
(* C24: a failed batched write to the staging table aborts the whole       *)
(* staging load: the run ends at the failure, so nothing is retried row by *)
(* row, no further row is written, and neither the catalog resolution nor  *)
(* the migration runs.                                                     *)
(***************************************************************************)
C24_StagingWriteAborts ==
    /\ [](st.fallo => pc = "crashed")
    /\ [][~st.fallo]_vars

\* the second batch failed: the first batch is in staging, rows of the
\* extract are left unread, and nothing was resolved or migrated
C24_Witness ==
    /\ st.fallo
    /\ pc = "crashed"
    /\ Len(TMP_DataOZ_Staging) = BATCH_SIZE
    /\ Len(st.batch) >= 1
    /\ pb = PbIni
    /\ mg = MgIni

\* the program positions inside migrar()'s row loop and its retries
EnBucleMigrar == {"migrar_filas", "migrar_uno"}

\* the row the individual retry is about to submit is rejected by the store
RetryRechazado ==
    /\ pc = "migrar_uno"
    /\ mg.j < Len(mg.batch)
    /\ ~Acepta(mg.batch[mg.j + 1], CONTRIBUYENTE, Catalogos)

(***************************************************************************)
(* C25: neither a failed batch insert nor a failed individual insert       *)
(* leaves migrar(): from the row loop the run only moves inside migrar(),  *)
(* the retry of a batch hands control back to where the batch was sent     *)
(* from, the special record leads to migrar()'s return, and each row the   *)
(* store rejects in the retry adds exactly one to the discarded count.     *)
(***************************************************************************)
C25_FailuresContained ==
    [][ /\ pc \in EnBucleMigrar => pc' \in EnBucleMigrar \cup {"migrar_especial"}
        /\ pc = "migrar_uno" =>
              pc' = IF mg.j + 1 = Len(mg.batch) THEN mg.vuelve ELSE "migrar_uno"
        /\ pc = "migrar_especial" => pc' = "spark"
        /\ RetryRechazado =>
              /\ mg'.descartados = mg.descartados + 1
              /\ mg'.insertados = mg.insertados
              /\ mg'.j = mg.j + 1
              /\ mg'.rows = mg.rows
              /\ mg'.k = mg.k
              /\ CONTRIBUYENTE' = CONTRIBUYENTE ]_vars

\* a batch failed, its retry discarded one row and kept another, and a
\* later batch was inserted
C25_Witness ==
    /\ Migrado
    /\ PrimerasRechazadas # {}
    /\ mg.descartados > NumRepetidas
    /\ Len(mg.rows) > BATCH_SIZE
    /\ mg.insertados >= 2
    /\ mg.lote.k = Len(mg.rows)
    /\ mg.lote.insertados >= 1
    /\ mg.lote.descartados >= 1

\* the program positions of each stage
EnCarga == {"cargar", "cargar_filas"}
EnCatalogos == {"poblar_ciiu", "poblar_ubigeo", "poblar_tipos"}
EnMigrar == {"migrar", "migrar_filas", "migrar_uno", "migrar_especial"}

(***************************************************************************)
(* C26: the load stages run in the order staging load, catalog resolution, *)
(* migration, reporting.  The resolver starts only from a staging load     *)
(* that read the whole extract and flushed its last batch; the migration   *)
(* starts only from the resolver's last step; reporting follows the        *)
(* migration's return; and each stage writes only its own tables, so the   *)
(* catalogs are final before the store is cleared or written.              *)
(***************************************************************************)
C26_StageOrder ==
    [][ /\ (pc' \in EnCatalogos /\ pc \notin EnCatalogos) =>
              /\ pc = "cargar_filas" /\ pc' = "poblar_ciiu"
              /\ st.i = Len(csv) /\ st'.batch = <<>>
              /\ st'.filas_ok = Len(TMP_DataOZ_Staging')
        /\ (pc' \in EnMigrar /\ pc \notin EnMigrar) =>
              pc = "poblar_tipos" /\ pc' = "migrar"
        /\ (pc' = "spark" /\ pc # "spark") =>
              pc = IF hist.cargo THEN "migrar_especial" ELSE "verificar"
        /\ (pc' = "resumen" /\ pc # "resumen") => pc = "spark"
        /\ TMP_DataOZ_Staging' # TMP_DataOZ_Staging => pc \in EnCarga
        /\ catvars' # catvars => pc \in EnCatalogos
        /\ CONTRIBUYENTE' # CONTRIBUYENTE => pc \in EnMigrar
        /\ pc \in EnMigrar => hist.cargo ]_vars

\* a run that staged rows, added catalog entries and migrated records, at
\* the report
C26_Witness ==
    /\ pc = "resumen"
    /\ hist.cargo
    /\ st.filas_ok >= 2
    /\ ACTIVIDAD_ECONOMICA # SemillaAbierta.ciiu
    /\ mg.insertados >= 2

\* how often an id was handed to the store
Envios(ruc) == Cardinality({n \in 1..Len(mg.envios) : mg.envios[n] = ruc})

\* what is left of migrar()'s loops: rows not yet read, the flush of the
\* last batch, and rows of a failed batch not yet retried
Medida ==
    LET porLeer == (Len(mg.rows) - mg.k) * (BATCH_SIZE + 2)
    IN  CASE pc = "migrar_filas" -> porLeer + BATCH_SIZE + 1
          [] pc = "migrar_uno"   ->
                porLeer + (IF mg.vuelve = "migrar_filas" THEN BATCH_SIZE + 1 ELSE 0)
                        + (Len(mg.batch) - mg.j)
          [] OTHER -> 0

(***************************************************************************)
(* C27: the migration terminates: every step of its loops lowers a         *)
(* non-negative measure.  No id is handed to the store more than twice     *)
(* (once in its batch, once alone), the retry moves forward one row at a   *)
(* time and never back, and no further staging row is read while a retry   *)
(* is under way.                                                           *)
(***************************************************************************)
C27_MigrationTerminates ==
    /\ [](Medida >= 0 /\ \A n \in 1..Len(mg.envios) : Envios(mg.envios[n]) <= 2)
    /\ [][ /\ pc \in EnBucleMigrar => Medida' < Medida
           /\ pc = "migrar_uno" =>
                 /\ mg'.j = mg.j + 1
                 /\ mg'.k = mg.k
                 /\ mg'.envios = Append(mg.envios, mg.batch[mg.j + 1].ruc)
           /\ (pc = "migrar_filas" /\ pc' = "migrar_filas") => mg'.batch \in
                 {<<>>, mg.batch} \cup {Append(mg.batch, r) : r \in {Normalizar(mg.rows[mg.k + 1])}} ]_vars

\* a migration that ended after a failed batch was retried row by row:
\* an id was handed over twice and the next batch followed
C27_Witness ==
    /\ Migrado
    /\ \E n \in 1..Len(mg.envios) : Envios(mg.envios[n]) = 2
    /\ \E n \in 1..Len(mg.envios) : Envios(mg.envios[n]) = 1
    /\ Len(mg.envios) >= BATCH_SIZE * 2 + 1

(***************************************************************************)
(* C29: at the end of the migration the inserted and discarded counts add  *)
(* up to the number of filtered staging rows read; during the migration    *)
(* every row read so far is counted or waits in the batch.                 *)
(***************************************************************************)
C29_CountsAddUp ==
    /\ pc = "migrar_filas" =>
          mg.insertados + mg.descartados + Len(mg.batch) = mg.k
    /\ pc = "migrar_uno" =>
          mg.insertados + mg.descartados + (Len(mg.batch) - mg.j) = mg.k
    /\ (pc = "migrar_especial" \/ Migrado) =>
          mg.insertados + mg.descartados = Len(mg.rows)

\* a finished migration with a repeated id, a row the retry discarded and
\* rows inserted
C29_Witness ==
    /\ Migrado
    /\ Len(mg.rows) = MaxRows
    /\ NumRepetidas >= 1
    /\ mg.descartados > NumRepetidas
    /\ mg.insertados >= 1

\* the synthetic record was added by migrar() itself
EspecialAgregado == RegistroEspecial \in CONTRIBUYENTE /\ ~EspecialDeStaging

\* the rows of a failed batch that were not retried yet
SinReintentar == {mg.batch[n] : n \in (mg.j + 1)..Len(mg.batch)}

(***************************************************************************)
(* C30: at the end of the migration the store holds as many records as     *)
(* were counted inserted, plus the synthetic record when migrar() added    *)
(* it; during the migration the store holds exactly the counted rows, and  *)
(* no row of a rolled-back batch is in the store before its own retry.     *)
(***************************************************************************)
C30_StoreMatchesInserted ==
    /\ pc \in {"migrar_filas", "migrar_uno", "migrar_especial"} =>
          Cardinality(CONTRIBUYENTE) = mg.insertados
    /\ pc = "migrar_uno" => SinReintentar \cap CONTRIBUYENTE = {}
    /\ Migrado =>
          /\ Cardinality(CONTRIBUYENTE) =
                mg.insertados + (IF EspecialAgregado THEN 1 ELSE 0)
          /\ Cardinality(CONTRIBUYENTE \ {RegistroEspecial}) <= mg.insertados

\* a batch whose second row failed was rolled back and retried; the store
\* ends with the retried row, without the rejected one, plus the synthetic
\* record
C30_Witness ==
    /\ Migrado
    /\ mg.lote.estado = "procesado"
    /\ Len(mg.lote.filas) = BATCH_SIZE
    /\ LoteMalas = {BATCH_SIZE}
    /\ mg.lote.filas[1] \in CONTRIBUYENTE
    /\ mg.lote.filas[BATCH_SIZE] \notin CONTRIBUYENTE
    /\ EspecialAgregado
    /\ Cardinality(CONTRIBUYENTE) = mg.insertados + 1

(***************************************************************************)
(* Normalizer harness: one input, each normalizer applied to it once.      *)
(***************************************************************************)
Pending == <<"<pending>">>

LowerChar(c) ==
    IF \E i \in 1..26 : UpperLetters[i] = c
    THEN LowerLetters[CHOOSE i \in 1..26 : UpperLetters[i] = c]
    ELSE c

Lower(s) == [i \in 1..Len(s) |-> LowerChar(s[i])]

NormAlphabet == {" ", "A", "c", "E", "-", "1", "2", "Z"}

TextsUpTo(n) == UNION {[1..k -> NormAlphabet] : k \in 0..n}

NormWords ==
    EstadoValidos \cup CondicionValidos \cup TipoValidos \cup SexoValidos
    \cup TamanoValidos
    \cup {ACTIVO2, HABIDO2, ND, <<"1","3">>, <<"0">>, <<"B","9">>, <<"Z","Z">>,
          <<"A","7">>, <<"N","o","n","e">>, <<"\t">>, <<" ","\n">>}

\* each word as written, lower-cased, padded with whitespace, and with
\* garbage before or after it
Variants(w) ==
    {w, Lower(w), <<" ">> \o w \o <<" ","\t">>, <<" ">> \o Lower(w),
     w \o <<"X">>, <<"X">> \o w}

\* ' activo ', the documented dirty value
ActivoSucio == <<" ","a","c","t","i","v","o"," ">>

NormInputs ==
    {None, ActivoSucio} \cup TextsUpTo(MaxLen) \cup UNION {Variants(w) : w \in NormWords}

Idle ==
    /\ csv = <<>>
    /\ TMP_DataOZ_Staging = <<>>
    /\ ACTIVIDAD_ECONOMICA = {}
    /\ UBICACION_GEOGRAFICA = {}
    /\ TIPO_EMPRESA = {}
    /\ TAMANO_EMPRESA = {}
    /\ ESTADO_TRIBUTARIO = {}
    /\ CONDICION_DOMICILIO = {}
    /\ CONTRIBUYENTE = {}
    /\ pc = "idle"
    /\ run = 0
    /\ st = <<>>
    /\ pb = <<>>
    /\ mg = <<>>
    /\ hist = <<>>

pipevars == <<csv, TMP_DataOZ_Staging, ACTIVIDAD_ECONOMICA, UBICACION_GEOGRAFICA,
              TIPO_EMPRESA, TAMANO_EMPRESA, ESTADO_TRIBUTARIO, CONDICION_DOMICILIO,
              CONTRIBUYENTE, pc, run, st, pb, mg, hist>>

InitNorm ==
    /\ Idle
    /\ nValor \in NormInputs
    /\ nRes = [estado |-> Pending, condicion |-> Pending, tipo |-> Pending,
               sexo |-> Pending, tamano |-> Pending]
    /\ SinExtras

NormEstado ==
    /\ nRes.estado = Pending
    /\ nRes' = [nRes EXCEPT !.estado = limpiar_estado(nValor)]
    /\ UNCHANGED <<nValor, pipevars, extravars>>

NormCondicion ==
    /\ nRes.condicion = Pending
    /\ nRes' = [nRes EXCEPT !.condicion = limpiar_condicion(nValor)]
    /\ UNCHANGED <<nValor, pipevars, extravars>>

NormTipoEmpresa ==
    /\ nRes.tipo = Pending
    /\ nRes' = [nRes EXCEPT !.tipo = limpiar_tipo_empresa(nValor)]
    /\ UNCHANGED <<nValor, pipevars, extravars>>

NormSexo ==
    /\ nRes.sexo = Pending
    /\ nRes' = [nRes EXCEPT !.sexo = limpiar_sexo(nValor)]
    /\ UNCHANGED <<nValor, pipevars, extravars>>

NormTamano ==
    /\ nRes.tamano = Pending
    /\ nRes' = [nRes EXCEPT !.tamano = limpiar_tamano(nValor)]
    /\ UNCHANGED <<nValor, pipevars, extravars>>

NextNorm == NormEstado \/ NormCondicion \/ NormTipoEmpresa \/ NormSexo \/ NormTamano

SpecNorm == InitNorm /\ [][NextNorm]_vars

(***************************************************************************)
(* C10: every normalizer is total, never raises and returns a code of its  *)
(* closed set: limpiar_estado in {ACTIVO, INACTIVO, 1, 2, 3, 10, 11, 12,   *)
(* ND}, limpiar_condicion in {HABIDO, 1..12, ND}, limpiar_tipo_empresa in  *)
(* {A, B, C, D, E, CE, -}, limpiar_sexo in {HOMBRE, MUJER, ND},            *)
(* limpiar_tamano in {C, M, G, B}; for an empty or absent input the        *)
(* results are ND, ND, -, ND and C.                                        *)
(***************************************************************************)
EstadoCerrado ==
    {ACTIVO, INACTIVO, <<"1">>, <<"2">>, <<"3">>, <<"1","0">>, <<"1","1">>,
     <<"1","2">>, ND}

CondicionCerrado ==
    {HABIDO, ND} \cup {NatText(n) : n \in 1..12}

TipoCerrado == {<<"A">>, <<"B">>, <<"C">>, <<"D">>, <<"E">>, <<"C","E">>, <<"-">>}

SexoCerrado == {HOMBRE, MUJER, ND}

TamanoCerrado == {<<"C">>, <<"M">>, <<"G">>, <<"B">>}

C10_NormalizerTotality ==
    /\ nRes.estado # Pending => nRes.estado \in EstadoCerrado
    /\ nRes.condicion # Pending => nRes.condicion \in CondicionCerrado
    /\ nRes.tipo # Pending => nRes.tipo \in TipoCerrado
    /\ nRes.sexo # Pending => nRes.sexo \in SexoCerrado
    /\ nRes.tamano # Pending => nRes.tamano \in TamanoCerrado
    /\ nValor \in {None, <<>>} =>
          /\ nRes.estado \in {Pending, ND}
          /\ nRes.condicion \in {Pending, ND}
          /\ nRes.tipo \in {Pending, <<"-">>}
          /\ nRes.sexo \in {Pending, ND}
          /\ nRes.tamano \in {Pending, <<"C">>}

NormDone == \A f \in DOMAIN nRes : nRes[f] # Pending

\* all five normalizers have answered on whitespace-only input, on None and
\* on garbage; the state below is the whitespace case, where v[0] does not exist
C10_Witness ==
    /\ pc = "idle"
    /\ NormDone
    /\ nValor = <<" ", " ">>
    /\ nRes.tipo = <<"-">>
    /\ nRes.estado = ND

(***************************************************************************)
(* The rules of the normalizers are stated on the input as the code reads  *)
(* it: trimmed and upper-cased, an absent input read as the empty text.    *)
(***************************************************************************)
Canonico(valor) == IF valor = None THEN <<>> ELSE Strip(Upper(valor))

CodigosEstado ==
    {ACTIVO, INACTIVO, <<"1">>, <<"2">>, <<"3">>, <<"1","0">>, <<"1","1">>, <<"1","2">>}

CodigosCondicion == {HABIDO} \cup {NatText(n) : n \in 1..12}

LetrasTipo == {"A", "B", "C", "D", "E"}

(***************************************************************************)
(* C11: limpiar_estado maps '2ACTIVO' to 'ACTIVO', returns 'ACTIVO',       *)
(* 'INACTIVO' and the numeric codes 1, 2, 3, 10, 11, 12 unchanged, and     *)
(* maps every input that is none of these (once trimmed and upper-cased)   *)
(* to 'ND'.                                                                *)
(***************************************************************************)
C11_EstadoRules ==
    nRes.estado # Pending =>
       /\ nValor = ACTIVO2 => nRes.estado = ACTIVO
       /\ nValor \in CodigosEstado => nRes.estado = nValor
       /\ Canonico(nValor) \notin CodigosEstado \cup {ACTIVO2} => nRes.estado = ND

\* the corrupted prefix has been repaired
C11_Witness ==
    /\ pc = "idle"
    /\ nValor = ACTIVO2
    /\ nRes.estado = ACTIVO

(***************************************************************************)
(* C12: limpiar_condicion maps '2HABIDO' to 'HABIDO', returns 'HABIDO' and *)
(* the numeric codes 1 to 12 unchanged, and maps every input that is none  *)
(* of these (once trimmed and upper-cased) to 'ND'.                        *)
(***************************************************************************)
C12_CondicionRules ==
    nRes.condicion # Pending =>
       /\ nValor = HABIDO2 => nRes.condicion = HABIDO
       /\ nValor \in CodigosCondicion => nRes.condicion = nValor
       /\ Canonico(nValor) \notin CodigosCondicion \cup {HABIDO2} => nRes.condicion = ND

\* a number just outside 1..12 is undetermined
C12_Witness ==
    /\ pc = "idle"
    /\ nValor = <<"1","3">>
    /\ nRes.condicion = ND
    /\ nRes.estado = ND

(***************************************************************************)
(* C13: limpiar_tipo_empresa returns the input unchanged when it is        *)
(* exactly one of A, B, C, D, E, CE, -; otherwise, when the first          *)
(* character is one of A..E, that character ('B9' gives 'B'); otherwise    *)
(* '-' ('ZZ' gives '-'); the input is read trimmed and upper-cased.        *)
(***************************************************************************)
C13_TipoEmpresaRules ==
    nRes.tipo # Pending =>
       LET v == Canonico(nValor) IN
       /\ nValor \in TipoCerrado => nRes.tipo = nValor
       /\ nValor = <<"B","9">> => nRes.tipo = <<"B">>
       /\ nValor = <<"Z","Z">> => nRes.tipo = <<"-">>
       /\ v \in TipoCerrado => nRes.tipo = v
       /\ (v \notin TipoCerrado /\ v # <<>> /\ v[1] \in LetrasTipo) => nRes.tipo = <<v[1]>>
       /\ (v \notin TipoCerrado /\ (v = <<>> \/ v[1] \notin LetrasTipo)) => nRes.tipo = <<"-">>

\* the two-letter code is kept whole, not cut to its first letter
C13_Witness ==
    /\ pc = "idle"
    /\ nValor = CE
    /\ nRes.tipo = CE

(***************************************************************************)
(* C14: every normalizer is case-insensitive and trims its input: its      *)
(* result on an input equals its result on that input with the            *)
(* surrounding whitespace removed and the letters upper-cased (' activo '  *)
(* gives 'ACTIVO', 'b9' gives 'B'), and a normalizer applied to its own    *)
(* output returns that output.                                             *)
(***************************************************************************)
C14_TrimCaseIdempotent ==
    /\ (nRes.estado # Pending /\ nValor # None) =>
          nRes.estado = limpiar_estado(Strip(Upper(nValor)))
    /\ (nRes.condicion # Pending /\ nValor # None) =>
          nRes.condicion = limpiar_condicion(Strip(Upper(nValor)))
    /\ (nRes.tipo # Pending /\ nValor # None) =>
          nRes.tipo = limpiar_tipo_empresa(Strip(Upper(nValor)))
    /\ (nRes.sexo # Pending /\ nValor # None) =>
          nRes.sexo = limpiar_sexo(Strip(Upper(nValor)))
    /\ (nRes.tamano # Pending /\ nValor # None) =>
          nRes.tamano = limpiar_tamano(Strip(Upper(nValor)))
    /\ nRes.estado # Pending => limpiar_estado(nRes.estado) = nRes.estado
    /\ nRes.condicion # Pending => limpiar_condicion(nRes.condicion) = nRes.condicion
    /\ nRes.tipo # Pending => limpiar_tipo_empresa(nRes.tipo) = nRes.tipo
    /\ nRes.sexo # Pending => limpiar_sexo(nRes.sexo) = nRes.sexo
    /\ nRes.tamano # Pending => limpiar_tamano(nRes.tamano) = nRes.tamano
    /\ (nValor = ActivoSucio /\ nRes.estado # Pending) => nRes.estado = ACTIVO
    /\ (nValor = <<"b","9">> /\ nRes.tipo # Pending) => nRes.tipo = <<"B">>

\* a padded lower-case word has gone through all five normalizers
C14_Witness ==
    /\ pc = "idle"
    /\ NormDone
    /\ nValor = <<" ">> \o Lower(HOMBRE)
    /\ nRes.sexo = HOMBRE
    /\ nRes.tipo = <<"-">>

(***************************************************************************)
(* get_connection: the retry loop and the clock it reads.                  *)
(***************************************************************************)
\* time.sleep(5)
SLEEP_S == 5
\* pyodbc.connect(conn_str, timeout=10): an attempt takes up to 10 s
LOGIN_TIMEOUT == 10
\* "timeout: int = 30"
TIMEOUT_DEFECTO == 30
\* test_connection and execute_sql_file pass timeout=120
TIMEOUT_MASTER == 120

\* the timeouts callers pass, and 0
Timeouts == {0, TIMEOUT_DEFECTO, TIMEOUT_MASTER}

\* seconds one connection attempt takes
Duraciones == {0, 1, LOGIN_TIMEOUT}

\* time.time() when get_connection is called
Relojes == {0, 7}

\* the call get_connection(database, timeout) at clock reading t
GcLlamada(timeout, t) ==
    [estado |-> "llamada", timeout |-> timeout, inicio |-> 0, ahora |-> t, intento |-> 0]

InitConn ==
    /\ Idle
    /\ nValor = None
    /\ nRes = <<>>
    /\ RESULTADO_SPARK = <<>>
    /\ gs = <<>>
    /\ otra = <<>>
    /\ \E timeout \in Timeouts, t \in Relojes : gc = GcLlamada(timeout, t)

\* "inicio = time.time(); intento = 0"
GcEntrar ==
    /\ gc.estado = "llamada"
    /\ gc' = [gc EXCEPT !.inicio = gc.ahora, !.intento = 0, !.estado = "bucle"]
    /\ UNCHANGED <<pipevars, normvars, RESULTADO_SPARK, gs, otra>>

\* one pass of "while True" up to the outcome of pyodbc.connect: the
\* connection is returned at once, a pyodbc.Error enters the handler
GcIntentar ==
    /\ gc.estado = "bucle"
    /\ \E d \in Duraciones, conectado \in BOOLEAN :
          gc' = [gc EXCEPT !.intento = @ + 1, !.ahora = @ + d,
                           !.estado = IF conectado THEN "devuelto" ELSE "except"]
    /\ UNCHANGED <<pipevars, normvars, RESULTADO_SPARK, gs, otra>>

\* the deadline is taken as passed at every failure
Vencido_Siempre(elapsed, timeout) == TRUE

\* "if elapsed >= timeout"
Vencido(elapsed, timeout) == elapsed >= timeout

\* the handler: "elapsed = time.time() - inicio", then raise or sleep
GcExcept ==
    /\ gc.estado = "except"
    /\ LET elapsed == gc.ahora - gc.inicio
       IN  IF Vencido(elapsed, gc.timeout)
           THEN gc' = [gc EXCEPT !.estado = "lanzado"]
           ELSE gc' = [gc EXCEPT !.ahora = @ + SLEEP_S, !.estado = "bucle"]
    /\ UNCHANGED <<pipevars, normvars, RESULTADO_SPARK, gs, otra>>

NextConn ==
    \/ GcEntrar
    \/ GcIntentar
    \/ GcExcept

\* a running call keeps executing: every connect and every sleep returns
SpecConn == InitConn /\ [][NextConn]_vars /\ WF_vars(NextConn)

\* get_connection has returned or raised
GcTerminado == gc.estado \in {"devuelto", "lanzado"}

(***************************************************************************)
(* C22: get_connection returns in the step in which an attempt succeeds;   *)
(* after a failed attempt it either raises or waits exactly 5 seconds and  *)
(* tries again; it raises only out of a failed attempt and only when the   *)
(* time since the call has reached the timeout; the attempts are bounded   *)
(* by the timeout, and every call ends by returning or raising.            *)
(***************************************************************************)
C22_RetryUntilTimeout ==
    /\ [](gc.estado = "lanzado" => gc.ahora - gc.inicio >= gc.timeout)
    /\ [](gc.estado # "llamada" =>
             gc.intento <= (gc.timeout + SLEEP_S - 1) \div SLEEP_S + 1)
    /\ [][ /\ ~GcTerminado
           /\ gc'.estado = "devuelto" =>
                 gc.estado = "bucle" /\ gc'.intento = gc.intento + 1
           /\ gc'.estado = "lanzado" =>
                 gc.estado = "except" /\ gc'.ahora = gc.ahora
           /\ gc.estado = "except" =>
                 \/ gc'.estado = "lanzado"
                 \/ /\ gc'.estado = "bucle"
                    /\ gc'.ahora = gc.ahora + SLEEP_S
                    /\ gc.ahora - gc.inicio < gc.timeout
                    /\ gc'.intento = gc.intento ]_vars
    /\ <>GcTerminado

\* the default timeout ran out: the error was raised after the seventh
\* failed attempt, 30 seconds after the call to the second
C22_Witness ==
    /\ gc.estado = "lanzado"
    /\ gc.timeout = TIMEOUT_DEFECTO
    /\ gc.intento = 7
    /\ gc.ahora - gc.inicio = TIMEOUT_DEFECTO

(***************************************************************************)
(* guardar_resultado_spark: one transaction on the analysis-result table.  *)
(***************************************************************************)
\* calls of guardar_resultado_spark in sequence
MaxLlamadas == 3
\* longest result list of one analysis
MaxData == 2

\* two of the names run() saves under
Nombres == {"Demografia", "Calidad de Datos"}

\* result tuples (categoria, metrica, valor_num, valor_texto)
Tuplas == {<<"ACTIVO", "total", 2, "">>, <<"BAJA", "total", 1, "">>}

Datas == SeqsUpTo(Tuplas, MaxData)

\* the row the INSERT writes for one tuple of data
FilaResultado(nombre, row) ==
    [nombre_analisis |-> nombre, categoria |-> row[1], metrica |-> row[2],
     valor_numerico |-> row[3], valor_texto |-> row[4]]

GsIni ==
    [estado |-> "libre", nombre |-> "", data |-> <<>>, i |-> 0, tx |-> <<>>,
     antes |-> <<>>, llamadas |-> 0]

InitSpark ==
    /\ Idle
    /\ nValor = None
    /\ nRes = <<>>
    /\ gc = <<>>
    /\ otra = <<>>
    /\ RESULTADO_SPARK = <<>>
    /\ gs = GsIni

\* guardar_resultado_spark(nombre, data, conn) is called; tx is the table
\* as the open transaction sees it
GsLlamar ==
    /\ gs.estado = "libre"
    /\ gs.llamadas < MaxLlamadas
    /\ \E nombre \in Nombres, data \in Datas :
          gs' = [estado |-> "delete", nombre |-> nombre, data |-> data, i |-> 0,
                 tx |-> RESULTADO_SPARK, antes |-> RESULTADO_SPARK,
                 llamadas |-> gs.llamadas + 1]
    /\ UNCHANGED <<pipevars, normvars, gc, RESULTADO_SPARK, otra>>

\* no row is deleted
BorrarAnalisis_Nada(tabla, nombre) == tabla

\* "DELETE FROM RESULTADO_SPARK WHERE nombre_analisis = ?"
BorrarAnalisis(tabla, nombre) ==
    LET Queda(r) == r.nombre_analisis # nombre
    IN  SelectSeq(tabla, Queda)

GsDelete ==
    /\ gs.estado = "delete"
    /\ gs' = [gs EXCEPT !.tx = BorrarAnalisis(@, gs.nombre), !.estado = "insert"]
    /\ UNCHANGED <<pipevars, normvars, gc, RESULTADO_SPARK, otra>>

\* one iteration of "for row in data"; an INSERT the store refuses raises
\* out of the function and of run(), and the transaction is never committed
GsInsert ==
    /\ gs.estado = "insert"
    /\ gs.i < Len(gs.data)
    /\ \E escrito \in BOOLEAN :
          gs' = IF escrito
                THEN [gs EXCEPT !.i = @ + 1,
                                !.tx = Append(@, FilaResultado(gs.nombre, gs.data[gs.i + 1]))]
                ELSE [gs EXCEPT !.estado = "error"]
    /\ UNCHANGED <<pipevars, normvars, gc, RESULTADO_SPARK, otra>>

\* conn.commit()
GsCommit ==
    /\ gs.estado = "insert"
    /\ gs.i = Len(gs.data)
    /\ RESULTADO_SPARK' = gs.tx
    /\ gs' = [gs EXCEPT !.estado = "libre"]
    /\ UNCHANGED <<pipevars, normvars, gc, otra>>

NextSpark ==
    \/ GsLlamar
    \/ GsDelete
    \/ GsInsert
    \/ GsCommit

SpecSpark == InitSpark /\ [][NextSpark]_vars

\* the rows of a table saved under one name, in order
FilasDe(tabla, nombre) ==
    LET Es(r) == r.nombre_analisis = nombre
    IN  SelectSeq(tabla, Es)

\* the last call of guardar_resultado_spark has committed
GsGuardado == gs.estado = "libre" /\ gs.llamadas >= 1

(***************************************************************************)
(* C23: after guardar_resultado_spark(name, data, conn) commits, the rows  *)
(* of the table with that name are exactly the rows of data, in order, and *)
(* the rows of every other name are as they were before the call; until    *)
(* the commit the table is as it was.                                      *)
(***************************************************************************)
C23_ReplaceByName ==
    /\ GsGuardado =>
          /\ FilasDe(RESULTADO_SPARK, gs.nombre) =
                [n \in 1..Len(gs.data) |-> FilaResultado(gs.nombre, gs.data[n])]
          /\ \A o \in Nombres \ {gs.nombre} :
                FilasDe(RESULTADO_SPARK, o) = FilasDe(gs.antes, o)
    /\ gs.estado \in {"delete", "insert", "error"} => RESULTADO_SPARK = gs.antes

\* the third call saved other rows under a name that had rows, next to the
\* rows of the other name
C23_Witness ==
    /\ GsGuardado
    /\ gs.llamadas = 3
    /\ Len(FilasDe(gs.antes, gs.nombre)) = 2
    /\ Len(gs.data) = 1
    /\ FilasDe(RESULTADO_SPARK, gs.nombre) # FilasDe(gs.antes, gs.nombre)
    /\ \E o \in Nombres \ {gs.nombre} : FilasDe(RESULTADO_SPARK, o) # <<>>

(***************************************************************************)
(* Two invocations of main() on the same database.  One of them runs; the  *)
(* other waits in otra.  Both found the store under the row threshold, so  *)
(* both are about to run the load stages.                                  *)
(***************************************************************************)
\* extracts of the concurrent runs: an id repeated a batch apart, and
\* shorter ones
ExtractosConc == {<<F_buena, F_otra, F_repetida>>, <<F_buena, F_otra>>, <<F_otra>>}

\* the locals of one invocation
Proceso(p, s, b, m, h) == [pc |-> p, st |-> s, pb |-> b, mg |-> m, hist |-> h]

InitConc ==
    /\ csv \in ExtractosConc
    /\ \E semilla \in {SemillaCompleta, SemillaAbierta} :
          /\ ACTIVIDAD_ECONOMICA = semilla.ciiu
          /\ UBICACION_GEOGRAFICA = semilla.ubicacion
          /\ TIPO_EMPRESA = semilla.tipo
          /\ TAMANO_EMPRESA = semilla.tamano
          /\ ESTADO_TRIBUTARIO = semilla.estado
          /\ CONDICION_DOMICILIO = semilla.condicion
    /\ TMP_DataOZ_Staging = <<>>
    /\ CONTRIBUYENTE = {}
    /\ pc = "cargar"
    /\ run = 1
    /\ st = StIni
    /\ pb = PbIni
    /\ mg = MgIni
    /\ hist = [HistIni({}, FALSE, {}) EXCEPT !.conexion = "ok"]
    /\ otra = Proceso("cargar", StIni, PbIni, MgIni,
                      [HistIni({}, FALSE, {}) EXCEPT !.conexion = "ok"])
    /\ nValor = None
    /\ nRes = <<>>
    /\ gc = <<>>
    /\ RESULTADO_SPARK = <<>>
    /\ gs = <<>>

\* the operating system lets the other invocation run, between two
\* statements that the model takes as one step each
Cambiar ==
    /\ otra.pc \notin {"spark", "crashed"}
    /\ pc' = otra.pc
    /\ st' = otra.st
    /\ pb' = otra.pb
    /\ mg' = otra.mg
    /\ hist' = otra.hist
    /\ otra' = Proceso(pc, st, pb, mg, hist)
    /\ run' = 3 - run
    /\ UNCHANGED <<csv, dbvars, normvars, gc, RESULTADO_SPARK, gs>>

NextConc ==
    \/ CargarInicio
    \/ CargarFila
    \/ CargarFin
    \/ PoblarCiiu
    \/ PoblarUbigeo
    \/ PoblarTipos
    \/ MigrarInicio
    \/ MigrarFila
    \/ MigrarUno
    \/ MigrarUltimoLote
    \/ MigrarEspecial
    \/ Cambiar

SpecConc == InitConc /\ [][NextConc]_vars

\* both invocations came out of the migration
AmbasTerminadas == pc = "spark" /\ otra.pc = "spark"

\* the first row with an id, in the order of a sequence of staging rows
PrimeraDe(rows, ruc) ==
    rows[CHOOSE n \in 1..Len(rows) :
            /\ rows[n].ddp_numruc = ruc
            /\ \A o \in 1..(n - 1) : rows[o].ddp_numruc # ruc]

\* the store one invocation alone leaves for the extract: per id the
\* normalized first row that passes the filter, if the store accepts it,
\* and the synthetic record if its id is free
StoreDeUnaCorrida ==
    LET filtradas == SelectSeq(Esperado(csv), PasaFiltro)
        ids == {filtradas[n].ddp_numruc : n \in 1..Len(filtradas)}
        deStaging == {r \in {Normalizar(PrimeraDe(filtradas, ruc)) : ruc \in ids} :
                         ReferenciasResueltas(r, Catalogos)}
    IN  deStaging \cup
           (IF RUC_ESPECIAL \notin Rucs(deStaging)
               /\ ReferenciasResueltas(RegistroEspecial, Catalogos)
            THEN {RegistroEspecial} ELSE {})

(***************************************************************************)
(* C28: the clearing steps take no account of the other invocation: the    *)
(* clearing of the store empties it whatever the other invocation has     *)
(* committed and counted, and leaves that count as it was; the clearing of *)
(* the staging empties it whatever the other invocation has loaded.  So    *)
(* two interleaved runs can end with a store that differs from the store   *)
(* of one run alone, which is the state the witness describes.             *)
(***************************************************************************)
C28_ClearingIgnoresOtherRun ==
    [][ /\ (pc = "migrar" /\ run' = run /\ pc' # pc) =>
              /\ CONTRIBUYENTE' = {}
              /\ otra' = otra
        /\ (pc = "cargar" /\ run' = run /\ pc' # pc) =>
              /\ TMP_DataOZ_Staging' = <<>>
              /\ otra' = otra
        /\ run' # run =>
              /\ otra' = Proceso(pc, st, pb, mg, hist)
              /\ UNCHANGED dbvars ]_vars

\* both runs are through: the store is not the store of one run alone, and
\* the two runs counted more inserted rows than the store holds, because
\* one run's clearing removed what the other had committed and counted
C28_Witness ==
    /\ AmbasTerminadas
    /\ CONTRIBUYENTE # StoreDeUnaCorrida
    /\ Rucs(CONTRIBUYENTE) = Rucs(StoreDeUnaCorrida)
    /\ mg.insertados + otra.mg.insertados > Cardinality(CONTRIBUYENTE \ {RegistroEspecial})


=============================================================================
